---------------------------- MODULE Spec2Model ----------------------------
(***************************************************************************)
(* The HTTP backend thread of the SQLite HTTP VFS                          *)
(* (src/js/vfs-http-worker-bundle.js): the page cache (an LRUCache bounded *)
(* by byte size), the file registry, the xOpen / xAccess / xRead /         *)
(* xFilesize handlers and the workMessage dispatcher that replies through  *)
(* each consumer's shared region.                                          *)
(*                                                                         *)
(* The dispatcher is one JavaScript thread.  A handler runs without        *)
(* interruption up to its next `yield` (await) of a promise; an action of  *)
(* this model is one such run.  Messages and network completions are       *)
(* macrotasks: they are taken only when no continuation is ready to run    *)
(* (the microtask queue is empty).  When a fetch settles, the continuation *)
(* of the handler that issued it is the first reaction of the promise and  *)
(* runs in the same action; the handlers that joined the promise run after *)
(* it, in any order.                                                       *)
(*                                                                         *)
(* Bytes are not stored: a chunk is the interval of the remote file it was *)
(* fetched from, and a payload is the interval of the file that was copied *)
(* into the consumer's buffer.                                             *)
(***************************************************************************)
EXTENDS Integers, Sequences, FiniteSets, TLC

\* ------------------------------------------------------------ bounds
\* Number of data messages the consumers send in one behaviour.
MaxReq == 4
\* The same in SpecMix.
MaxMix == 4
\* The same in SpecFair.
MaxFair == 3
\* The same in SpecOpen.
MaxOpen == 5
\* The same in SpecChunk.
MaxChunk == 4
\* The same in SpecTail.
MaxTail == 4

\* ------------------------------------------------------------ constants
ProvisionalPageSize == 1024
DefaultMaxPageSize == 4096
RefSize == 4
KiB == 1024
HANDSHAKE == 16777214
HeaderOffset == 16
HeaderLen == 2

Consumers == {1, 2}
URLs == {1, 2}

\* The remote files: byte length and the page size stored big-endian in header
\* bytes 16-17.
RemoteSize(u) == IF u = 1 THEN 8192 ELSE 16384
RemotePageSize(u) == IF u = 1 THEN 1024 ELSE 2048

\* The operators below that take the cache, the dispatcher state or a frame
\* bind each such argument to its value first ({e : x \in {x0}} has the one
\* element e, with x the value of x0), so that an argument is computed once
\* however often the body reads it.
Val(S) == CHOOSE x \in S : TRUE

Min(a, b) == IF a < b THEN a ELSE b
Max(a, b) == IF a > b THEN a ELSE b

\* ------------------------------------------------------------ cache values
\* undefined | Uint8Array (bytes [a, a+b) of the file) | number (root page a)
\* | Promise of a fetch (a = fetch id) | Promise of a reference (a = fetch id,
\* b = root page)
Undef == [t |-> "U", a |-> 0, b |-> 0]
Data(from, len) == [t |-> "D", a |-> from, b |-> len]
Num(p) == [t |-> "N", a |-> p, b |-> 0]
Resp(id) == [t |-> "P", a |-> id, b |-> 0]
RefResp(id, p) == [t |-> "RP", a |-> id, b |-> p]
IsPromise(v) == v.t \in {"P", "RP"}

\* ------------------------------------------------------------ LRUCache
\* The recency list head -> tail is a sequence of entries [k, v, sz]; sz is
\* sizes[index].
SizeCalculation(v) == IF v.t = "D" THEN v.b ELSE RefSize

\* `evicted` and `everEvicted` are not fields of the class: they record that
\* evict() ran since `evicted` was last cleared, and that it ever ran.
NewCache(maxSize) == [ok |-> TRUE, maxSize |-> maxSize, list |-> <<>>,
                      calculatedSize |-> 0, evicted |-> FALSE, everEvicted |-> FALSE]
\* `let cache;` before an 'init' message built one
NoCache == [ok |-> FALSE, maxSize |-> 0, list |-> <<>>,
            calculatedSize |-> 0, evicted |-> FALSE, everEvicted |-> FALSE]

KeyIndex(list0, k) ==
  Val({(
    IF \E i \in 1..Len(list) : list[i].k = k
      THEN CHOOSE i \in 1..Len(list) : list[i].k = k
      ELSE 0
    ) : list \in {list0}})

RemoveAt(list0, i) ==
  Val({(
    SubSeq(list, 1, i - 1) \o SubSeq(list, i + 1, Len(list))
    ) : list \in {list0}})

MoveToTail(list0, i) ==
  Val({(
    RemoveAt(list, i) \o <<list[i]>>
    ) : list \in {list0}})

\* evict(true): drop the head, whatever it holds
Evict(c0) ==
  Val({(
    [c EXCEPT !.calculatedSize = @ - c.list[1].sz,
              !.list = Tail(c.list),
              !.evicted = TRUE,
              !.everEvicted = TRUE]
    ) : c \in {c0}})

RECURSIVE EvictWhileOver(_, _)
EvictWhileOver(c0, limit) ==
  Val({(
    IF c.calculatedSize > limit /\ Len(c.list) > 0
      THEN EvictWhileOver(Evict(c), limit)
      ELSE c
    ) : c \in {c0}})

\* addItemSize making room up to maxSize, not up to maxSize - size
AddItemSizeNoRoom(c0, size) ==
  Val({(
    LET n == Len(c.list)
        c1 == [c EXCEPT !.list[n].sz = size]
        c2 == EvictWhileOver(c1, c.maxSize)
    IN [c2 EXCEPT !.calculatedSize = @ + size]
    ) : c \in {c0}})

\* addItemSize for the entry at the tail of the list
AddItemSize(c0, size) ==
  Val({(
    LET n == Len(c.list)
        c1 == [c EXCEPT !.list[n].sz = size]
        c2 == EvictWhileOver(c1, c.maxSize - size)
    IN [c2 EXCEPT !.calculatedSize = @ + size]
    ) : c \in {c0}})

LruDelete(c0, k) ==
  Val({(
    LET i == KeyIndex(c.list, k)
    IN IF i = 0 THEN c
       ELSE IF Len(c.list) = 1
         THEN [c EXCEPT !.list = <<>>, !.calculatedSize = 0]
         ELSE [c EXCEPT !.calculatedSize = @ - c.list[i].sz,
                        !.list = RemoveAt(c.list, i)]
    ) : c \in {c0}})

LruSet(c0, k, v0) ==
  Val({(
    LET size == SizeCalculation(v)
        i == KeyIndex(c.list, k)
    IN IF size > c.maxSize THEN LruDelete(c, k)
       ELSE IF i = 0
         THEN AddItemSize([c EXCEPT !.list = Append(@, [k |-> k, v |-> v, sz |-> 0])],
                          size)
         ELSE LET moved == MoveToTail(c.list, i)
                  n == Len(moved)
              IN IF v # c.list[i].v
                   THEN AddItemSize(
                          [c EXCEPT !.list = [moved EXCEPT ![n].v = v, ![n].sz = 0],
                                    !.calculatedSize = @ - c.list[i].sz],
                          size)
                   ELSE [c EXCEPT !.list = moved]
    ) : c \in {c0}, v \in {v0}})

\* get(k): the value (Undef when absent), and below the cache after
\* moveToTail, or after a get that leaves the recency list as it is
LruValue(c0, k) ==
  Val({(
    LET i == KeyIndex(c.list, k) IN IF i = 0 THEN Undef ELSE c.list[i].v
    ) : c \in {c0}})

LruTouchNoMove(c0, k) == c0

LruTouch(c0, k) ==
  Val({(
    LET i == KeyIndex(c.list, k)
    IN IF i = 0 THEN c ELSE [c EXCEPT !.list = MoveToTail(c.list, i)]
    ) : c \in {c0}})

\* ------------------------------------------------------------ LRUCache, as laid out
\* The class keeps its entries in slots: keyMap takes a key to its slot,
\* keyList and valList hold the key and the value of a slot, next and prev
\* link the slots from head (least recently used) to tail, free is the stack
\* of the slots given back, initialFill the first slot never used.  With
\* maxSize, sizes holds the size of each slot and calculatedSize their sum.
\* The page cache above is this class with maxSize alone; the file registry
\* is this class with max: 32.
MaxFiles == 32
Slots == 0..(MaxFiles - 1)
Keys == 1..(MaxFiles + 1)
\* Map.get of a key that is not in the map, and an element of a plain Array
\* that was never written (next and prev are plain Arrays when max is 0)
Absent == -1
\* null in keyList and valList
NullKey == 0
NullVal == [st |-> "null", n |-> 0]

NewLRUCache(max, maxSize) ==
  [made |-> TRUE, max |-> max, maxSize |-> maxSize,
   keyMap |-> [k \in Keys |-> Absent],
   keyList |-> [i \in Slots |-> NullKey],
   valList |-> [i \in Slots |-> NullVal],
   next |-> [i \in Slots |-> IF max > 0 THEN 0 ELSE Absent],
   prev |-> [i \in Slots |-> IF max > 0 THEN 0 ELSE Absent],
   head |-> 0, tail |-> 0, free |-> <<>>, initialFill |-> 1, size |-> 0,
   sizes |-> [i \in Slots |-> 0], calculatedSize |-> 0]

\* before `new LRUCache`
NoLRUCache == [NewLRUCache(0, 0) EXCEPT !.made = FALSE]

\* lines 398-401; without size tracking removeItemSize is the empty method
\* of line 444
removeItemSize(L0, index) ==
  Val({(
    IF L.maxSize = 0 THEN L
    ELSE [L EXCEPT !.calculatedSize = @ - L.sizes[index], !.sizes[index] = 0]
    ) : L \in {L0}})

\* lines 767-790: evict(free), which returns the slot that was the head
evict(L0, free) ==
  Val({(
    LET h == L.head
        k == L.keyList[h]
        L1 == removeItemSize(L, h)
        L2 == IF free
                THEN [L1 EXCEPT !.keyList[h] = NullKey, !.valList[h] = NullVal,
                                !.free = Append(@, h)]
                ELSE L1
    IN [L2 EXCEPT !.head = L.next[h],
                  !.keyMap = [x \in Keys |-> IF x = k THEN Absent ELSE @[x]],
                  !.size = @ - 1]
    ) : L \in {L0}})

\* lines 433-435
RECURSIVE evictWhileOver(_, _)
evictWhileOver(L0, limit) ==
  Val({(
    IF L.calculatedSize > limit THEN evictWhileOver(evict(L, TRUE), limit) ELSE L
    ) : L \in {L0}})

\* lines 429-442
addItemSize(L0, index, size) ==
  Val({(
    IF L.maxSize = 0 THEN L
    ELSE LET L1 == [L EXCEPT !.sizes[index] = size]
             L2 == evictWhileOver(L1, L.maxSize - size)
         IN [L2 EXCEPT !.calculatedSize = @ + L2.sizes[index]]
    ) : L \in {L0}})

\* lines 745-757: the cache after newIndex() and the slot it returned
newIndex(L0) ==
  Val({(
    IF L.size = 0 THEN [L |-> L, index |-> L.tail]
    ELSE IF L.size = L.max /\ L.max # 0
      THEN [L |-> evict(L, FALSE), index |-> L.head]
    ELSE IF Len(L.free) # 0
      THEN [L |-> [L EXCEPT !.free = SubSeq(@, 1, Len(@) - 1)],
            index |-> L.free[Len(L.free)]]
    ELSE [L |-> [L EXCEPT !.initialFill = @ + 1], index |-> L.initialFill]
    ) : L \in {L0}})

\* lines 1099-1102
connect(L0, p, n) ==
  Val({(
    [L EXCEPT !.prev[n] = p, !.next[p] = n]
    ) : L \in {L0}})

\* lines 1104-1122
moveToTail(L0, index) ==
  Val({(
    IF index = L.tail THEN L
    ELSE LET L1 == IF index = L.head THEN [L EXCEPT !.head = L.next[index]]
                   ELSE connect(L, L.prev[index], L.next[index])
             L2 == connect(L1, L1.tail, index)
         IN [L2 EXCEPT !.tail = index]
    ) : L \in {L0}})

\* lines 1172-1207
clear(L0) ==
  Val({(
    [L EXCEPT !.keyMap = [k \in Keys |-> Absent],
              !.valList = [i \in Slots |-> NullVal],
              !.keyList = [i \in Slots |-> NullKey],
              !.sizes = [i \in Slots |-> 0],
              !.head = 0, !.tail = 0, !.initialFill = 1, !.free = <<>>,
              !.calculatedSize = 0, !.size = 0]
    ) : L \in {L0}})

\* lines 1129-1170 that leave the key in keyMap (without line 1148)
deleteKeepsKey(L0, k) ==
  Val({(
    LET index == L.keyMap[k]
    IN IF L.size = 0 \/ index = Absent THEN L
       ELSE IF L.size = 1 THEN clear(L)
       ELSE LET L1 == removeItemSize(L, index)
                L2 == [L1 EXCEPT !.keyList[index] = NullKey,
                                 !.valList[index] = NullVal]
                L3 == IF index = L.tail THEN [L2 EXCEPT !.tail = L.prev[index]]
                      ELSE IF index = L.head THEN [L2 EXCEPT !.head = L.next[index]]
                      ELSE [L2 EXCEPT !.next[L.prev[index]] = L.next[index],
                                      !.prev[L.next[index]] = L.prev[index]]
            IN [L3 EXCEPT !.size = @ - 1, !.free = Append(@, index)]
    ) : L \in {L0}})

\* lines 1129-1170
delete(L0, k) ==
  Val({(
    LET index == L.keyMap[k]
    IN IF L.size = 0 \/ index = Absent THEN L
       ELSE IF L.size = 1 THEN clear(L)
       ELSE LET L1 == removeItemSize(L, index)
                L2 == [L1 EXCEPT !.keyMap[k] = Absent,
                                 !.keyList[index] = NullKey,
                                 !.valList[index] = NullVal]
                L3 == IF index = L.tail THEN [L2 EXCEPT !.tail = L.prev[index]]
                      ELSE IF index = L.head THEN [L2 EXCEPT !.head = L.next[index]]
                      ELSE [L2 EXCEPT !.next[L.prev[index]] = L.next[index],
                                      !.prev[L.next[index]] = L.prev[index]]
            IN [L3 EXCEPT !.size = @ - 1, !.free = Append(@, index)]
    ) : L \in {L0}})

\* lines 658-743: set(k, v) with `size` what requireSize returned (line 671)
set(L0, k, v0, size) ==
  Val({(
    LET index == IF L.size = 0 THEN Absent ELSE L.keyMap[k]
    IN IF L.maxSize # 0 /\ size > L.maxSize THEN delete(L, k)
       ELSE IF index = Absent
         THEN LET r == newIndex(L)
                  i == r.index
                  L1 == r.L
                  L2 == [L1 EXCEPT !.keyList[i] = k, !.valList[i] = v,
                                   !.keyMap[k] = i]
                  L3 == [L2 EXCEPT !.next[L2.tail] = i]
                  L4 == [L3 EXCEPT !.prev[i] = L3.tail]
              IN addItemSize([L4 EXCEPT !.tail = i, !.size = @ + 1], i, size)
         ELSE LET L1 == moveToTail(L, index)
              IN IF v # L1.valList[index]
                   THEN addItemSize([removeItemSize(L1, index) EXCEPT
                                       !.valList[index] = v], index, size)
                   ELSE L1
    ) : L \in {L0}, v \in {v0}})

\* lines 1048-1097: what get(k) returns (NullVal stands for undefined), and
\* the cache after it
getValue(L, k) ==
  IF L.keyMap[k] = Absent THEN NullVal ELSE L.valList[L.keyMap[k]]
\* get(k) without line 1088
getNoMove(L0, k) == L0
get(L0, k) ==
  Val({(
    IF L.keyMap[k] = Absent THEN L ELSE moveToTail(L, L.keyMap[k])
    ) : L \in {L0}})

\* lines 472-495, rindexes(): the slots from head to tail.  A slot is valid
\* when keyMap takes its key back to it (isValidIndex).
RECURSIVE slotsFrom(_, _, _)
slotsFrom(L, i, fuel) ==
  IF fuel = 0 \/ i \notin Slots \/ L.keyList[i] \notin Keys
     \/ L.keyMap[L.keyList[i]] # i
    THEN <<>>
  ELSE IF i = L.tail THEN <<i>>
  ELSE <<i>> \o slotsFrom(L, L.next[i], fuel - 1)
rindexes(L) == IF L.size = 0 THEN <<>> ELSE slotsFrom(L, L.head, MaxFiles + 1)

\* ------------------------------------------------------------ handlers
\* The state the handlers work on is threaded through them as a record
\* d = [cache, files, fetches, disc]; a handler run returns [d, t]: the state
\* it leaves and its own frame t, whose pc says where it is suspended ("ret"
\* and "throw": it returned 0 or threw).
\*
\* files[u].st: "none" (no entry), "pending" / "rejected" (the HEAD promise),
\* "entry" (the FileEntry); pageSize 0 stands for null.
\* fetches[id]: the GET issued for cache key `key`, range [from, from+size),
\* st "inflight" | "ok" | "fail", len the length of the body received.
\* disc[u] counts the discovery reads of u and tells whether the page size
\* was read from the header; it counts the HEAD probes of u as well (heads)
\* and keeps how the last one ended (head).  It is bookkeeping for the
\* properties, not program state.
\* In a frame, status and copied hold the last reply and `fresh` tells that
\* the request is an xRead, that nothing was evicted since it was received
\* and that it has not failed (bookkeeping as well).
NoMsg == [op |-> "none", url |-> 0, offset |-> 0, n |-> 0]
NoCopy == [from |-> 0, len |-> 0]
IdleTask == [pc |-> "idle", msg |-> NoMsg, inner |-> FALSE, w |-> Undef,
             ps |-> 0, page |-> 0, pageStart |-> 0, newPageStart |-> 0,
             chunkSize |-> 0, last |-> 0, viaRef |-> FALSE, hdr |-> 0,
             status |-> 0, copied |-> NoCopy, fresh |-> FALSE]

R(d, t) == [d |-> d, t |-> t]
Throw(d, t) == R(d, [t EXCEPT !.pc = "throw"])
Suspend(d, t, pc, w) == R(d, [t EXCEPT !.pc = pc, !.w = w])

Entry(d, t) == d.files[t.msg.url]
\* the message of the frame that is running: the discovery read is
\* xRead({offset: 16, n: 2}) into a buffer of 2 bytes
CurOffset(t) == IF t.inner THEN HeaderOffset ELSE t.msg.offset
CurN(t) == IF t.inner THEN HeaderLen ELSE t.msg.n
CacheId(d, t, page) == <<Entry(d, t).id, page>>
MaxPageSizeOf(options) == options.maxPageSize
BufferLen(options, t) == IF t.inner THEN HeaderLen ELSE MaxPageSizeOf(options)

\* cache.get(k) on the threaded state
Get(d, k) == LruValue(d.cache, k)
Touched(d0, k) ==
  Val({(
    [d EXCEPT !.cache = LruTouch(d.cache, k)]
    ) : d \in {d0}})

\* lines 1467-1469: consumer.buffer.set(data.subarray(pageOffset, pageOffset + n))
Subarray(data0, begin, end) ==
  Val({(
    LET lo == Min(data.b, Max(begin, 0))
        hi == Max(lo, Min(data.b, end))
    IN [from |-> data.a + lo, len |-> hi - lo]
    ) : data \in {data0}})

Deliver(options, d0, t0, data0) ==
  Val({(
    LET pageOffset == CurOffset(t) - t.pageStart
        sub == Subarray(data, pageOffset, pageOffset + CurN(t))
    IN IF sub.len > BufferLen(options, t) THEN Throw(d, t)
       ELSE IF t.inner
         THEN R(d, [t EXCEPT !.pc = "discRet",
                    !.hdr = IF sub.from = HeaderOffset /\ sub.len = HeaderLen
                              THEN RemotePageSize(t.msg.url) ELSE 0])
         ELSE R(d, [t EXCEPT !.pc = "ret", !.copied = sub])
    ) : d \in {d0}, t \in {t0}, data \in {data0}})

RECURSIVE SetRange(_, _, _, _, _)
SetRange(c0, fid, i, last, v0) ==
  Val({(
    IF i > last THEN c
    ELSE SetRange(LruSet(c, <<fid, i>>, v), fid, i + 1, last, v)
    ) : c \in {c0}, v \in {v0}})

\* lines 1454-1462, run by the handler that issued fetch t.w.a when it settled
AfterResp(options, d0, t0) ==
  Val({(
    LET f == d.fetches[t.w.a]
        data == Data(f.from, f.len)
        fid == f.key[1]
        c1 == LruSet(d.cache, f.key, data)
        c2 == SetRange(c1, fid, t.page + 1, t.last, Num(t.page))
    IN IF f.st = "fail" \/ f.len = 0 THEN Throw(d, t)
       ELSE Deliver(options, [d EXCEPT !.cache = c2], t, data)
    ) : d \in {d0}, t \in {t0}})

\* lines 1438-1454: issue the GET, register the promise and its references
Fetch(d0, t0, chunkSize) ==
  Val({(
    LET e == Entry(d, t)
        id == Len(d.fetches) + 1
        last == t.page + ((chunkSize + e.pageSize - 1) \div e.pageSize) - 1
        f == [url |-> t.msg.url, key |-> CacheId(d, t, t.page), from |-> t.pageStart,
              size |-> chunkSize, st |-> "inflight", len |-> 0]
        c1 == LruSet(d.cache, CacheId(d, t, t.page), Resp(id))
        c2 == SetRange(c1, e.id, t.page + 1, last, RefResp(id, t.page))
    IN R([d EXCEPT !.cache = c2, !.fetches = Append(@, f)],
         [t EXCEPT !.pc = "awaitResp", !.w = Resp(id), !.last = last])
    ) : d \in {d0}, t \in {t0}})

\* lines 1432-1437 without the doubling of line 1434
Prev2NoDoubling(d, t, prev) == Fetch(d, t, t.chunkSize)

\* lines 1432-1437
Prev2(d0, t0, prev0) ==
  Val({(
    Fetch(d, t, IF prev.t = "D" THEN prev.b * 2 ELSE t.chunkSize)
    ) : d \in {d0}, t \in {t0}, prev \in {prev0}})

\* lines 1428-1431 without line 1429: a reference is not followed to its root
Prev1NoFollow(d, t, prev) == Prev2(d, t, prev)

\* lines 1428-1431
Prev1(d0, t0, prev0) ==
  Val({(
    IF prev.t = "N"
      THEN LET k == CacheId(d, t, prev.a)
               p2 == Get(d, k)
           IN IF IsPromise(p2) THEN Suspend(Touched(d, k), t, "awaitPrev2", p2)
              ELSE Prev2(Touched(d, k), t, p2)
      ELSE Prev2(d, t, prev)
    ) : d \in {d0}, t \in {t0}, prev \in {prev0}})

\* `if (prev)`: undefined, false and the number 0 are falsy
Truthy(v) == v.t # "U" /\ ~(v.t = "N" /\ v.a = 0)

\* lines 1419-1427 and 1464-1469
Miss(options, d0, t0, data0) ==
  Val({(
    IF data.t = "U"
      THEN LET t1 == [t EXCEPT !.chunkSize = Entry(d, t).pageSize]
               k == CacheId(d, t, t.page - 1)
               prev == IF t.page > 0 THEN Get(d, k) ELSE Undef
               d1 == IF t.page > 0 THEN Touched(d, k) ELSE d
           IN IF ~Truthy(prev) THEN Prev2(d1, t1, Undef)
              ELSE IF IsPromise(prev) THEN Suspend(d1, t1, "awaitPrev1", prev)
              ELSE Prev1(d1, t1, prev)
      ELSE Deliver(options, d, t, data)
    ) : d \in {d0}, t \in {t0}, data \in {data0}})

\* lines 1408-1417 taking every referenced root for invalid
Ref2AlwaysMiss(options, d, t, data) == Miss(options, d, t, Undef)

\* lines 1408-1417
Ref2(options, d0, t0, data0) ==
  Val({(
    IF data.t = "D"
      THEN Miss(options, d, [t EXCEPT !.pageStart = t.newPageStart], data)
      ELSE Miss(options, d, t, Undef)
    ) : d \in {d0}, t \in {t0}, data \in {data0}})

\* lines 1401-1407
Ref(options, d0, t0, data0) ==
  Val({(
    IF data.t = "N"
      THEN LET k == CacheId(d, t, data.a)
               root == Get(d, k)
               t1 == [t EXCEPT !.viaRef = TRUE, !.newPageStart = data.a * t.ps]
           IN IF IsPromise(root) THEN Suspend(Touched(d, k), t1, "awaitRoot", root)
              ELSE Ref2(options, Touched(d, k), t1, root)
      ELSE Miss(options, d, t, data)
    ) : d \in {d0}, t \in {t0}, data \in {data0}})

\* line 1394 with <= for <
CrossPageOffByOne(offset, n, pageStart, ps) == pageStart + ps <= offset + n

\* line 1394: the read ends past the end of the page it starts in
CrossPage(offset, n, pageStart, ps) == pageStart + ps < offset + n

\* lines 1388-1400
Lookup(options, d0, t0) ==
  Val({(
    LET ps == Entry(d, t).pageSize
        page == CurOffset(t) \div ps
        pageStart == page * ps
        t1 == [t EXCEPT !.ps = ps, !.page = page, !.pageStart = pageStart]
        k == CacheId(d, t, page)
        data == Get(d, k)
    IN IF ps = 0 THEN Throw(d, t)
       ELSE IF CrossPage(CurOffset(t), CurN(t), pageStart, ps) THEN Throw(d, t1)
       ELSE IF ~d.cache.ok THEN Throw(d, t1)
       ELSE IF IsPromise(data) THEN Suspend(Touched(d, k), t1, "awaitData", data)
       ELSE Ref(options, Touched(d, k), t1, data)
    ) : d \in {d0}, t \in {t0}})

\* lines 1373-1387: the discovery read returned 0 with the header in pageData
DiscRet(options, d0, t0) ==
  Val({(
    LET u == t.msg.url
        e == d.files[u]
        c1 == IF t.hdr # ProvisionalPageSize
                THEN LruDelete(d.cache, <<e.id, 0>>) ELSE d.cache
        d1 == [d EXCEPT !.files[u].pageSize = t.hdr,
                        !.disc[u].known = TRUE,
                        !.cache = c1]
        t1 == [t EXCEPT !.inner = FALSE]
    IN IF t.hdr > MaxPageSizeOf(options) THEN Throw(d1, t1)
       ELSE Lookup(options, d1, t1)
    ) : d \in {d0}, t \in {t0}})

\* lines 1365-1372 where the provisional page size does not keep the readers
\* that arrive during the discovery from starting their own
ArgsUnguarded(options, d0, t0) ==
  Val({(
    LET u == t.msg.url
    IN IF t.msg.n < 0 THEN Throw(d, t)
       ELSE IF ~d.disc[u].known
         THEN Lookup(options,
                     [d EXCEPT !.files[u].pageSize = ProvisionalPageSize,
                               !.disc[u].count = @ + 1],
                     [t EXCEPT !.inner = TRUE])
         ELSE Lookup(options, d, t)
    ) : d \in {d0}, t \in {t0}})

\* lines 1365-1372.  The discovery read is xRead itself, called with the entry
\* already holding the provisional page size: its own lines 1360-1367 fall
\* through (the entry is there, the arguments are set, pageSize is 1024), so
\* the inner frame starts at line 1388.
Args(options, d0, t0) ==
  Val({(
    LET u == t.msg.url
    IN IF t.msg.n < 0 THEN Throw(d, t)
       ELSE IF d.files[u].pageSize = 0
         THEN Lookup(options,
                     [d EXCEPT !.files[u].pageSize = ProvisionalPageSize,
                               !.disc[u].count = @ + 1],
                     [t EXCEPT !.inner = TRUE])
         ELSE Lookup(options, d, t)
    ) : d \in {d0}, t \in {t0}})

\* lines 1360-1364.  A rejected promise makes `yield entry` throw.
XReadStart(options, d0, t0) ==
  Val({(
    LET st == Entry(d, t).st
    IN IF st \in {"none", "rejected"} THEN Throw(d, t)
       ELSE IF st = "pending" THEN Suspend(d, t, "awaitEntry", Undef)
       ELSE Args(options, d, t)
    ) : d \in {d0}, t \in {t0}})

\* lines 1310-1316 with an opener that finds the probe in flight starting
\* one of its own
XOpenStartNoJoin(d0, t0) ==
  Val({(
    LET st == Entry(d, t).st
    IN IF st = "rejected" THEN Throw(d, t)
       ELSE IF st = "entry" THEN R(d, [t EXCEPT !.pc = "ret"])
       ELSE R([d EXCEPT !.files[t.msg.url].st = "pending",
                        !.disc[t.msg.url].heads = @ + 1],
              [t EXCEPT !.pc = "awaitHead"])
    ) : d \in {d0}, t \in {t0}})

\* lines 1310-1316 and 1332: xOpen up to its first yield
XOpenStart(d0, t0) ==
  Val({(
    LET st == Entry(d, t).st
    IN IF st = "rejected" THEN Throw(d, t)
       ELSE IF st = "pending" THEN Suspend(d, t, "awaitEntry", Undef)
       ELSE IF st = "entry" THEN R(d, [t EXCEPT !.pc = "ret"])
       ELSE R([d EXCEPT !.files[t.msg.url].st = "pending",
                        !.disc[t.msg.url].heads = @ + 1],
              [t EXCEPT !.pc = "awaitHead"])
    ) : d \in {d0}, t \in {t0}})

\* lines 1475-1482 without the throw of line 1477
XFilesizeStartUnchecked(d0, t0) ==
  Val({(
    IF Entry(d, t).st = "pending" THEN Suspend(d, t, "awaitEntry", Undef)
    ELSE R(d, [t EXCEPT !.pc = "ret"])
    ) : d \in {d0}, t \in {t0}})

\* lines 1475-1482
XFilesizeStart(d0, t0) ==
  Val({(
    LET st == Entry(d, t).st
    IN IF st \in {"none", "rejected"} THEN Throw(d, t)
       ELSE IF st = "pending" THEN Suspend(d, t, "awaitEntry", Undef)
       ELSE R(d, [t EXCEPT !.pc = "ret"])
    ) : d \in {d0}, t \in {t0}})

\* line 1491: backendAsyncMethods[data.msg](data, this); an unknown name is
\* not a function and the call throws inside the try
StartOp(options, d0, t0) ==
  Val({(
    CASE t.msg.op = "xRead" -> XReadStart(options, d, t)
      [] t.msg.op \in {"xOpen", "xAccess"} -> XOpenStart(d, t)
      [] t.msg.op = "xFilesize" -> XFilesizeStart(d, t)
      [] OTHER -> Throw(d, t)
    ) : d \in {d0}, t \in {t0}})

\* the value a settled promise of the cache hands to `yield`
IsSettled(d, v) == d.fetches[v.a].st # "inflight"
IsRejected(d, v) == d.fetches[v.a].st = "fail"
Awaited(d, v) ==
  IF v.t = "RP" THEN Num(v.b)
  ELSE Data(d.fetches[v.a].from, d.fetches[v.a].len)

\* a suspended handler whose promise has settled
Ready(d, t) ==
  \/ t.pc = "discRet"
  \/ t.pc = "awaitEntry" /\ Entry(d, t).st # "pending"
  \/ t.pc \in {"awaitData", "awaitRoot", "awaitPrev1", "awaitPrev2"}
       /\ IsSettled(d, t.w)

\* the continuation after the `yield` the handler is suspended at
Continue(options, d0, t0) ==
  Val({(
    IF t.pc = "discRet" THEN DiscRet(options, d, t)
    ELSE IF t.pc = "awaitEntry"
      THEN IF Entry(d, t).st = "rejected" THEN Throw(d, t)
           ELSE IF t.msg.op = "xRead" THEN Args(options, d, t)
           ELSE R(d, [t EXCEPT !.pc = "ret"])
    ELSE IF t.pc = "awaitResp" THEN AfterResp(options, d, t)
    ELSE IF IsRejected(d, t.w) THEN Throw(d, t)
    ELSE IF t.pc = "awaitData" THEN Ref(options, d, t, Awaited(d, t.w))
    ELSE IF t.pc = "awaitRoot" THEN Ref2(options, d, t, Awaited(d, t.w))
    ELSE IF t.pc = "awaitPrev1" THEN Prev1(d, t, Awaited(d, t.w))
    ELSE Prev2(d, t, Awaited(d, t.w))
    ) : d \in {d0}, t \in {t0}})

\* ------------------------------------------------------------ workMessage
\* workMessage's catch converting only what xRead throws
StatusOfReadOnly(t) ==
  IF t.pc = "throw" /\ t.msg.op = "xRead" THEN 1 ELSE 0

\* lines 1489-1499: what the handler's end stores in the consumer's region.
\* xAccess catches what xOpen throws and returns 0 after writing 1 or 0 as a
\* Uint32 at byte 0 of shm; xFilesize writes the size as a BigInt64 at byte 0;
\* xRead copied its payload before returning.
StatusOf(t0) ==
  Val({(
    IF t.msg.op = "xAccess" THEN 0 ELSE IF t.pc = "throw" THEN 1 ELSE 0
    ) : t \in {t0}})

\* the handler's end writing the payload after the status was stored
RegionLogStoreFirst(t) ==
  IF t.pc = "throw" /\ t.msg.op # "xAccess" THEN <<"store", "notify">>
  ELSE <<"store", "buffer", "notify">>

\* the accesses to the consumer's region by the handler's end, in the order
\* of the code: the payload (line 1468, lines 1345-1352, line 1481) is written
\* before the handler returns, Atomics.store (1493, 1497) follows the
\* return, Atomics.notify (1499) follows the store
RegionLog(t) ==
  IF t.pc = "throw" /\ t.msg.op # "xAccess" THEN <<"store", "notify">>
  ELSE <<"buffer", "store", "notify">>

BufferAfter(d0, t0, buf0) ==
  Val({(
    IF t.msg.op = "xAccess"
      THEN [k |-> "u32", u |-> 0, a |-> IF t.pc = "ret" THEN 1 ELSE 0, b |-> 0]
    ELSE IF t.pc = "throw" THEN buf
    ELSE IF t.msg.op = "xFilesize"
      THEN [k |-> "i64", u |-> 0, a |-> Entry(d, t).size, b |-> 0]
    ELSE IF t.msg.op = "xRead" /\ t.copied.len > 0
      THEN [k |-> "bytes", u |-> t.msg.url, a |-> t.copied.from, b |-> t.copied.len]
    ELSE buf
    ) : d \in {d0}, t \in {t0}, buf \in {buf0}})

\* ------------------------------------------------------------ state
VARIABLES
  options,    \* the 'init' options; set = FALSE before the message
  cache,      \* the page cache
  files,      \* the file registry, by URL
  nextId,     \* the next FileEntry id
  fetches,    \* every GET issued so far, by fetch id
  consumers,  \* per consumer: hs (handshake done), shm (its shared region),
              \* len (bytes of the data buffer), lock (status cell), buf (what
              \* the data buffer holds), acks and log (bookkeeping: acks
              \* posted, the accesses to the region by the last writer)
  task,       \* per consumer: the handler of its request, or its last result
  disc,       \* bookkeeping: discovery reads per file
  sent,       \* bookkeeping: data messages received per consumer
  stored,     \* bookkeeping: Atomics.store calls of workMessage per consumer
  notified,   \* bookkeeping: Atomics.notify calls of workMessage per consumer
  scenario,   \* "free", or the name of the script consumer 1 follows (SpecScan)
  lru,        \* an LRUCache as the class lays it out (SpecLru)
  reg,        \* the file registry as the LRUCache of 32 entries it is (SpecRegistry)
  main,       \* the main thread's side of the backend: createHttpBackend (SpecChannel)
  pool        \* the worker pool of createSQLiteHTTPPool (SpecPool)

\* what the dispatcher's specifications work on, and what the others do
core == <<options, cache, files, nextId, fetches, consumers, task, disc,
          sent, stored, notified, scenario>>
ext == <<lru, reg, main, pool>>
vars == <<options, cache, files, nextId, fetches, consumers, task, disc,
          sent, stored, notified, scenario, lru, reg, main, pool>>

NoOptions == [set |-> FALSE, cacheSize |-> 0, maxPageSize |-> DefaultMaxPageSize]
NoFile == [st |-> "none", id |-> 0, size |-> 0, pageSize |-> 0]
ZeroBuf == [k |-> "zero", u |-> 0, a |-> 0, b |-> 0]
\* line 1292-1305: the registry and nextId when the worker's module has
\* loaded.  req is the request of each consumer (a consumer waits for the
\* answer before it sends the next one), heads the HEAD probes sent, made
\* the FileEntries built, order the URLs stored so far in the order of their
\* last files.get hit or files.set, refused the URLs that were answered
\* "not open" after they had been stored, loaded and probes the number of
\* requests the two consumers have sent.
NoRequest == [pc |-> "idle", op |-> "none", url |-> 0, w |-> 0, status |-> 0,
              absent |-> FALSE]
NoRegistry == [files |-> NewLRUCache(MaxFiles, 0), nextId |-> 1,
               req |-> [c \in Consumers |-> NoRequest], heads |-> <<>>,
               made |-> <<>>, order |-> <<>>, refused |-> {}, loaded |-> 0,
               probes |-> 0]
\* bundle.js, createHttpBackend: the shared backend of the main thread.
\* consumers[id] is "none" (no such property), "waiting" (resolve and
\* timeout still in it) or "acked" (both deleted, lines 422-423); promise,
\* calls and port are the promise createNewChannel returned for id, the
\* number of calls of its resolve or reject, and the channel whose port2 it
\* was resolved with; toWorker and toMain are the messages posted and not
\* yet handled; late[id] tells whether the ack of id was handled after its
\* timeout or after close().
MaxChan == 3
ChanIds == 1..MaxChan
\* data.id of the ack of 'close' (undefined)
NoId == 0
NoBackend ==
  [made |-> FALSE, nextId |-> 1, handler |-> "normal",
   consumers |-> [id \in ChanIds |-> "none"],
   promise |-> [id \in ChanIds |-> "none"],
   calls |-> [id \in ChanIds |-> 0],
   port |-> [id \in ChanIds |-> 0],
   timer |-> [id \in ChanIds |-> "none"],
   toWorker |-> <<>>, toMain |-> <<>>, workerClosed |-> FALSE,
   closing |-> "none", closeTimer |-> "none",
   late |-> [id \in ChanIds |-> "no"]]
\* bundle.js, createSQLiteHTTPPool: busy[w] is the exec call whose promise
\* is in workers[w].busy (0 for null), st[e] the state of exec call e, at[e]
\* the worker it was given, queue the calls suspended on Promise.race in the
\* order in which they will resume
MaxWorkers == 2
MaxExec == 4
PoolWorkers == 1..MaxWorkers
Execs == 1..MaxExec
NoPool ==
  [made |-> FALSE, busy |-> [w \in PoolWorkers |-> 0],
   st |-> [e \in Execs |-> "none"], at |-> [e \in Execs |-> 0],
   queue |-> <<>>, next |-> 1]
NoConsumer == [hs |-> FALSE, shm |-> 0, len |-> 0, lock |-> 0, buf |-> ZeroBuf,
               acks |-> 0, log |-> <<>>]

Start ==
  /\ options = NoOptions
  /\ cache = NoCache
  /\ files = [u \in URLs |-> NoFile]
  /\ nextId = 1
  /\ fetches = <<>>
  /\ consumers = [c \in Consumers |-> NoConsumer]
  /\ task = [c \in Consumers |-> IdleTask]
  /\ disc = [u \in URLs |-> [count |-> 0, known |-> FALSE,
                              heads |-> 0, head |-> "none"]]
  /\ sent = [c \in Consumers |-> 0]
  /\ stored = [c \in Consumers |-> 0]
  /\ notified = [c \in Consumers |-> 0]
  /\ lru = NoLRUCache
  /\ reg = NoRegistry
  /\ main = NoBackend
  /\ pool = NoPool

Init == Start /\ scenario = "free"

\* the dispatcher state a handler run starts from
Now == [cache |-> [cache EXCEPT !.evicted = FALSE], files |-> files,
        fetches |-> fetches, disc |-> disc]

RECURSIVE SumOver(_, _)
SumOver(f, S) ==
  IF S = {} THEN 0
  ELSE LET x == CHOOSE y \in S : TRUE IN f[x] + SumOver(f, S \ {x})

\* fewer than k data messages were sent so far
Budget(k) == SumOver(sent, Consumers) < k

\* no continuation is ready: the microtask queue is empty
Quiet == \A c \in Consumers : ~Ready(Now, task[c])

\* workMessage without its catch: a handler that throws leaves the status
\* cell alone and notifies nobody
RepliedUncaught(c, d, t) ==
  IF t.pc = "throw" THEN UNCHANGED <<consumers, stored, notified>>
  ELSE /\ consumers' = [consumers EXCEPT ![c].lock = StatusOf(t),
                                         ![c].buf = BufferAfter(d, t, @),
                                         ![c].log = RegionLog(t)]
       /\ stored' = [stored EXCEPT ![c] = @ + 1]
       /\ notified' = [notified EXCEPT ![c] = @ + 1]

\* lines 1493-1499 with one region that every consumer's buffer is a view of
RepliedShared(c, d, t) ==
  /\ consumers' = [c2 \in Consumers |->
                     IF c2 = c
                       THEN [consumers[c] EXCEPT !.lock = StatusOf(t),
                                                 !.buf = BufferAfter(d, t, @),
                                                 !.log = RegionLog(t)]
                       ELSE [consumers[c2] EXCEPT !.buf = BufferAfter(d, t, @)]]
  /\ stored' = [stored EXCEPT ![c] = @ + 1]
  /\ notified' = [notified EXCEPT ![c] = @ + 1]

\* lines 1493-1499: store the status, then notify.  `this` is the record of
\* the consumer whose port the message came from: its lock, its buffer.
Replied(c, d, t) ==
  /\ consumers' = [consumers EXCEPT ![c].lock = StatusOf(t),
                                    ![c].buf = BufferAfter(d, t, @),
                                    ![c].log = RegionLog(t)]
  /\ stored' = [stored EXCEPT ![c] = @ + 1]
  /\ notified' = [notified EXCEPT ![c] = @ + 1]

\* the frame a finished handler leaves: its message and its reply
Finished(t0) ==
  Val({(
    [IdleTask EXCEPT !.msg = t.msg, !.viaRef = t.viaRef, !.status = StatusOf(t),
                     !.copied = t.copied,
                     !.fresh = (t.fresh /\ StatusOf(t) = 0)]
    ) : t \in {t0}})

\* the state after consumer c's handler ran to r
Ran(c, r) ==
  LET done == r.t.pc \in {"ret", "throw"}
  IN /\ cache' = r.d.cache
     /\ files' = r.d.files
     /\ fetches' = r.d.fetches
     /\ disc' = r.d.disc
     /\ task' = [c2 \in Consumers |->
                   LET t2 == IF c2 # c THEN task[c2]
                             ELSE IF done THEN Finished(r.t) ELSE r.t
                   IN IF r.d.cache.evicted THEN [t2 EXCEPT !.fresh = FALSE] ELSE t2]
     /\ IF done THEN Replied(c, r.d, r.t)
        ELSE UNCHANGED <<consumers, stored, notified>>

\* ------------------------------------------------------------ actions
\* lines 1518-1524.  The main thread posts 'init' once, before anything else
\* (src/js/bundle.js:405).  new LRUCache throws for maxSize 0 and leaves
\* `cache` undefined.
InitMsg(o) ==
  /\ ~options.set
  /\ options' = [set |-> TRUE, cacheSize |-> o.cacheSize, maxPageSize |-> o.maxPageSize]
  /\ cache' = IF o.cacheSize > 0 THEN NewCache(o.cacheSize * KiB) ELSE NoCache
  /\ UNCHANGED <<files, nextId, fetches, consumers, task, disc, sent, stored, notified, scenario>>
  /\ UNCHANGED ext

\* lines 1506-1517.  The main thread numbers its channels (nextId++,
\* src/js/bundle.js:434), so a consumer id is handshaken once.  The region is
\* a new SharedArrayBuffer, named here after the consumer it is allocated
\* for: maxPageSize bytes of data buffer, zero-filled, and the lock.
Handshake(c) ==
  /\ options.set
  /\ ~consumers[c].hs
  /\ consumers' = [consumers EXCEPT ![c] =
                     [hs |-> TRUE, shm |-> c, len |-> MaxPageSizeOf(options),
                      lock |-> HANDSHAKE, buf |-> ZeroBuf,
                      acks |-> consumers[c].acks + 1, log |-> <<"store", "ack">>]]
  /\ UNCHANGED <<options, cache, files, nextId, fetches, task, disc, sent, stored, notified, scenario>>
  /\ UNCHANGED ext

\* lines 1486-1492: a data message of consumer c, run to the handler's first
\* suspension.  The consumer is blocked on its status cell while its request
\* is being handled, so it has one request at a time.
WorkMessage(c, m) ==
  /\ consumers[c].hs
  /\ task[c].pc = "idle"
  /\ Quiet
  /\ sent' = [sent EXCEPT ![c] = @ + 1]
  /\ Ran(c, StartOp(options, Now,
                    [IdleTask EXCEPT !.msg = m, !.fresh = (m.op = "xRead")]))
  /\ UNCHANGED <<options, nextId, scenario>>
  /\ UNCHANGED ext

\* a ready continuation runs.  The continuation of the handler whose
\* discovery read returned was queued when that read finished, behind every
\* reaction of the promise that read awaited.
Resume(c) ==
  /\ Ready(Now, task[c])
  /\ task[c].pc = "discRet" =>
       \A c2 \in Consumers \ {c} : ~Ready(Now, task[c2])
  /\ Ran(c, Continue(options, Now, task[c]))
  /\ UNCHANGED <<options, nextId, sent, scenario>>
  /\ UNCHANGED ext

\* lines 1316-1335: the HEAD probe of u settles.  fetch() rejects on a
\* network error ("fail") and resolves on any HTTP response, a 2xx one ("ok")
\* or not ("status"); then() does not look at the status and builds the
\* FileEntry from the Content-Length header, which a response without a body
\* to speak of does not carry.  The opener's continuation, the promise's
\* first reaction, stores the entry.
HeadDone(u, outcome) ==
  /\ files[u].st = "pending"
  /\ Quiet
  /\ \E c \in Consumers :
       /\ task[c].pc = "awaitHead" /\ task[c].msg.url = u
       /\ LET e == IF outcome = "fail" THEN [files[u] EXCEPT !.st = "rejected"]
                  ELSE [st |-> "entry", id |-> nextId,
                        size |-> IF outcome = "ok" THEN RemoteSize(u) ELSE 0,
                        pageSize |-> 0]
              d == [Now EXCEPT !.files[u] = e, !.disc[u].head = outcome]
          IN Ran(c, R(d, [task[c] EXCEPT
                            !.pc = IF outcome = "fail" THEN "throw" ELSE "ret"]))
  /\ nextId' = IF outcome = "fail" THEN nextId ELSE nextId + 1
  /\ UNCHANGED <<options, sent, scenario>>
  /\ UNCHANGED ext

\* lines 1441-1446: GET id settles; the handler that issued it continues
BodyLen(f) == Max(0, Min(f.size, RemoteSize(f.url) - f.from))

FetchDone(id, outcome) ==
  /\ fetches[id].st = "inflight"
  /\ Quiet
  /\ \E c \in Consumers :
       /\ task[c].pc = "awaitResp" /\ task[c].w.a = id
       /\ LET f == fetches[id]
              g == [f EXCEPT !.st = IF outcome = "fail" THEN "fail" ELSE "ok",
                             !.len = IF outcome = "ok" THEN BodyLen(f) ELSE 0]
              d == [Now EXCEPT !.fetches[id] = g]
          IN Ran(c, Continue(options, d, task[c]))
  /\ UNCHANGED <<options, nextId, sent, scenario>>
  /\ UNCHANGED ext

\* ------------------------------------------------------------ inputs
\* how a HEAD probe ends: a 2xx response, another response, a network error
HeadOutcomes == {"ok", "status", "fail"}

Opts(cs, mps) == [cacheSize |-> cs, maxPageSize |-> mps]
Open(u) == [op |-> "xOpen", url |-> u, offset |-> 0, n |-> 0]
Read(u, offset, n) == [op |-> "xRead", url |-> u, offset |-> offset, n |-> n]
Other(o, u) == [op |-> o, url |-> u, offset |-> 0, n |-> 0]

\* Spec: two consumers read pages 0..2 of file 1 (page size 1024) in full,
\* misaligned inside page 0, and across the end of page 0, with a cache of
\* 1, 2 or 4 KiB (or none: cacheSize 0); every GET and HEAD may fail.
OptionSet == {Opts(cs, DefaultMaxPageSize) : cs \in {0, 1, 2, 4}}
Msgs ==
  {Open(1)} \cup {Read(1, p * 1024, 1024) : p \in 0..2}
  \cup {Read(1, 100, 100), Read(1, 100, 1024)}

Next ==
  \/ \E o \in OptionSet : InitMsg(o)
  \/ \E c \in Consumers : Handshake(c)
  \/ \E c \in Consumers, m \in Msgs : Budget(MaxReq) /\ WorkMessage(c, m)
  \/ \E c \in Consumers : Resume(c)
  \/ \E u \in URLs, outcome \in {"ok", "fail"} : HeadDone(u, outcome)
  \/ \E id \in 1..Len(fetches), outcome \in {"ok", "fail"} : FetchDone(id, outcome)

Spec == Init /\ [][Next]_vars

\* SpecMix: every kind of message on two files, file 2 with page size 2048
\* read in pieces of 100 bytes, maxPageSize 4096 or 1024 (smaller than file
\* 2's pages), a cache of 3 KiB or none.
MixOptionSet == {Opts(0, DefaultMaxPageSize), Opts(3, DefaultMaxPageSize), Opts(3, 1024)}
MixMsgs ==
  {Open(1), Open(2), Other("xAccess", 2), Other("xFilesize", 1), Other("xBogus", 1),
   Read(1, 0, -1), Read(1, 0, 1024), Read(1, 1000, 100),
   Read(2, 2048, 100), Read(2, 4096, 100)}

NextMix ==
  \/ \E o \in MixOptionSet : InitMsg(o)
  \/ \E c \in Consumers : Handshake(c)
  \/ \E c \in Consumers, m \in MixMsgs : Budget(MaxMix) /\ WorkMessage(c, m)
  \/ \E c \in Consumers : Resume(c)
  \/ \E u \in URLs, outcome \in {"ok", "fail"} : HeadDone(u, outcome)
  \/ \E id \in 1..Len(fetches), outcome \in {"ok", "fail"} : FetchDone(id, outcome)

SpecMix == Init /\ [][NextMix]_vars

\* SpecOpen: the file registry.  Two consumers open, probe, size and read
\* file 1, whose HEAD probe may end in each of the three ways; a cache of 3 KiB.
OpenMsgs ==
  {Open(1), Other("xAccess", 1), Other("xFilesize", 1), Read(1, 0, 1024)}

NextOpen ==
  \/ InitMsg(Opts(3, DefaultMaxPageSize))
  \/ \E c \in Consumers : Handshake(c)
  \/ \E c \in Consumers, m \in OpenMsgs : Budget(MaxOpen) /\ WorkMessage(c, m)
  \/ \E c \in Consumers : Resume(c)
  \/ \E u \in URLs, outcome \in HeadOutcomes : HeadDone(u, outcome)
  \/ \E id \in 1..Len(fetches), outcome \in {"ok", "fail"} : FetchDone(id, outcome)

SpecOpen == Init /\ [][NextOpen]_vars

\* SpecChunk: the size of the chunks.  Two consumers open file 1 (page size
\* 1024) and read its pages 0..3 in full, in any order and together, with a
\* cache of 2 KiB or of 1 MiB (the default).
ChunkOptionSet == {Opts(2, DefaultMaxPageSize), Opts(1024, DefaultMaxPageSize)}
ChunkMsgs == {Open(1)} \cup {Read(1, p * 1024, 1024) : p \in 0..3}

NextChunk ==
  \/ \E o \in ChunkOptionSet : InitMsg(o)
  \/ \E c \in Consumers : Handshake(c)
  \/ \E c \in Consumers, m \in ChunkMsgs : Budget(MaxChunk) /\ WorkMessage(c, m)
  \/ \E c \in Consumers : Resume(c)
  \/ \E u \in URLs, outcome \in {"ok", "fail"} : HeadDone(u, outcome)
  \/ \E id \in 1..Len(fetches), outcome \in {"ok", "fail"} : FetchDone(id, outcome)

SpecChunk == Init /\ [][NextChunk]_vars

\* SpecTail: the end of the file.  Two consumers open file 1 (8192 bytes, page
\* size 1024) and read its last page and the page after it, where a GET finds
\* no bytes, with a cache of 4 KiB.
TailMsgs == {Open(1), Read(1, 7168, 1024), Read(1, 8192, 1024)}

NextTail ==
  \/ InitMsg(Opts(4, DefaultMaxPageSize))
  \/ \E c \in Consumers : Handshake(c)
  \/ \E c \in Consumers, m \in TailMsgs : Budget(MaxTail) /\ WorkMessage(c, m)
  \/ \E c \in Consumers : Resume(c)
  \/ \E u \in URLs, outcome \in {"ok", "fail"} : HeadDone(u, outcome)
  \/ \E id \in 1..Len(fetches), outcome \in {"ok", "fail"} : FetchDone(id, outcome)

SpecTail == Init /\ [][NextTail]_vars

\* SpecFair: NextFair with the fairness the event loop and the network
\* give: a ready continuation runs, and every HEAD and GET settles (the
\* fetcher answers or fails; it does not hang).
FairMsgs ==
  {Open(1), Other("xAccess", 1), Other("xFilesize", 1), Other("xBogus", 1),
   Read(1, 0, 1024), Read(1, 1024, 1024)}

NextFair ==
  \/ \E o \in {Opts(0, DefaultMaxPageSize), Opts(1, DefaultMaxPageSize)} : InitMsg(o)
  \/ \E c \in Consumers : Handshake(c)
  \/ \E c \in Consumers, m \in FairMsgs : Budget(MaxFair) /\ WorkMessage(c, m)
  \/ \E c \in Consumers : Resume(c)
  \/ \E u \in URLs, outcome \in {"ok", "fail"} : HeadDone(u, outcome)
  \/ \E id \in 1..Len(fetches), outcome \in {"ok", "fail"} : FetchDone(id, outcome)

Progress ==
  \/ \E c \in Consumers : Resume(c)
  \/ \E u \in URLs, outcome \in {"ok", "fail"} : HeadDone(u, outcome)
  \/ \E id \in 1..Len(fetches), outcome \in {"ok", "fail"} : FetchDone(id, outcome)

Fairness == WF_vars(Progress)

SpecFair == Init /\ [][NextFair]_vars /\ Fairness

\* SpecScan: consumer 1 alone opens a file and reads pages in the order of a
\* script: pages 0,1,2,3 or pages 0,5,2, of file 1 (page size 1024) or of
\* file 2 (page size 2048), with a cache of 2 KiB or of 1 MiB (the default).
ScanOptionSet == {Opts(2, DefaultMaxPageSize), Opts(1024, DefaultMaxPageSize)}
ScriptPages(name) ==
  IF name \in {"seq1", "seq2"} THEN <<0, 1, 2, 3>> ELSE <<0, 5, 2>>
ScriptUrl(name) == IF name \in {"seq1", "rnd1"} THEN 1 ELSE 2
Script(name) ==
  LET u == ScriptUrl(name)
      ps == RemotePageSize(u)
      pages == ScriptPages(name)
  IN <<Open(u)>> \o [i \in 1..Len(pages) |-> Read(u, pages[i] * ps, ps)]

ScanMessage(c) ==
  /\ scenario # "free"
  /\ sent[c] < Len(Script(scenario))
  /\ WorkMessage(c, Script(scenario)[sent[c] + 1])

NextScan ==
  \/ \E o \in ScanOptionSet : InitMsg(o)
  \/ Handshake(1)
  \/ ScanMessage(1)
  \/ Resume(1)
  \/ \E u \in URLs, outcome \in {"ok", "fail"} : HeadDone(u, outcome)
  \/ \E id \in 1..Len(fetches), outcome \in {"ok", "fail"} : FetchDone(id, outcome)

InitScan == Start /\ scenario \in {"seq1", "rnd1", "seq2", "rnd2"}

SpecScan == InitScan /\ [][NextScan]_vars

\* ------------------------------------------------------------ LRUCache operations
\* One LRUCache under any sequence of its operations.  The three caches are
\* the configurations of the class: maxSize alone (the page cache), max
\* alone (the file registry), and both.  A value is a tag and the size
\* sizeCalculation gives it; a size above maxSize is an entry set() refuses.
\* evict() is called by set() alone (newIndex and addItemSize), on a cache
\* that holds an entry, so an eviction is part of the set that makes it.
LruKeys == 1..3
LruMax == 2
LruMaxSize == 4
LruConfigs == {[max |-> 0, maxSize |-> LruMaxSize], [max |-> LruMax, maxSize |-> 0],
               [max |-> LruMax, maxSize |-> LruMaxSize]}
LruVal(t) == [st |-> "val", n |-> t]

Construct(cfg) ==
  /\ ~lru.made
  /\ lru' = NewLRUCache(cfg.max, cfg.maxSize)
  /\ UNCHANGED <<core, reg, main, pool>>

SetOp(k, t, size) ==
  /\ lru.made
  /\ lru' = set(lru, k, LruVal(t), size)
  /\ UNCHANGED <<core, reg, main, pool>>

GetOp(k) ==
  /\ lru.made
  /\ lru' = get(lru, k)
  /\ UNCHANGED <<core, reg, main, pool>>

DeleteOp(k) ==
  /\ lru.made
  /\ lru' = delete(lru, k)
  /\ UNCHANGED <<core, reg, main, pool>>

ClearOp ==
  /\ lru.made
  /\ lru' = clear(lru)
  /\ UNCHANGED <<core, reg, main, pool>>

NextLru ==
  \/ \E cfg \in LruConfigs : Construct(cfg)
  \/ \E k \in LruKeys, t \in 1..2, size \in 1..(LruMaxSize + 1) : SetOp(k, t, size)
  \/ \E k \in LruKeys : GetOp(k)
  \/ \E k \in LruKeys : DeleteOp(k)
  \/ ClearOp

SpecLru == Init /\ [][NextLru]_vars

\* ------------------------------------------------------------ file registry
\* xOpen, xFilesize and the first lines of xRead against the registry as the
\* class lays it out.  One consumer opens the URLs 1, 2, 3, ... one after
\* the other, past the 32 the registry holds; the other sends up to MaxProbe
\* requests for the first URLs at any time.  What xRead does once it has
\* its entry (lines 1365-1469) is the subject of the specifications above;
\* here it ends with either status.  Up to MaxHeadFail HEAD probes of the
\* second consumer fail.
MaxProbe == 2
MaxHeadFail == 1
Loader == 1
Prober == 2
ProbeURLs == {1, 2}
RegOps == {"xOpen", "xFilesize", "xRead"}

\* what the registry holds under a URL: the promise of HEAD probe h (line
\* 1332) or the FileEntry with its id (line 1334)
HeadPromise(h) == [st |-> "promise", n |-> h]
FileEntry(id) == [st |-> "entry", n |-> id]

Used(order, u) == SelectSeq(order, LAMBDA x : x # u) \o <<u>>
Returned(fr, status) == [fr EXCEPT !.pc = "idle", !.status = status]
Failed(heads) == {h \in 1..Len(heads) : heads[h].st = "fail"}

\* lines 1308-1337, 1357-1364, 1473-1484 up to the first await, with the
\* catch of workMessage (line 1495): consumer c sends op for URL u
Request(c, op, u, r) ==
  /\ reg.req[c].pc = "idle"
  /\ LET e == getValue(reg.files, u)
         fr == [NoRequest EXCEPT !.op = op, !.url = u, !.absent = (e = NullVal)]
         got == [reg EXCEPT !.files = get(reg.files, u),
                            !.order = IF e = NullVal THEN @ ELSE Used(@, u),
                            !.loaded = IF c = Loader THEN @ + 1 ELSE @,
                            !.probes = IF c = Prober THEN @ + 1 ELSE @]
     IN reg' =
       IF e = NullVal /\ op = "xOpen"
         THEN [got EXCEPT
                 !.heads = Append(@, [url |-> u, owner |-> c, st |-> "pending"]),
                 !.files = set(@, u, HeadPromise(Len(reg.heads) + 1), 1),
                 !.order = Used(@, u),
                 !.req[c] = [fr EXCEPT !.pc = "head", !.w = Len(reg.heads) + 1]]
       ELSE IF e = NullVal
         THEN [got EXCEPT !.req[c] = Returned(fr, 1),
                          !.refused = IF \E i \in 1..Len(reg.order) : reg.order[i] = u
                                        THEN @ \cup {u} ELSE @]
       ELSE IF e.st = "promise" /\ reg.heads[e.n].st = "pending"
         THEN [got EXCEPT !.req[c] = [fr EXCEPT !.pc = "join", !.w = e.n]]
       ELSE IF e.st = "promise" /\ reg.heads[e.n].st = "fail"
         THEN [got EXCEPT !.req[c] = Returned(fr, 1)]
       ELSE [got EXCEPT !.req[c] = Returned(fr, IF op = "xRead" THEN r ELSE 0)]
  /\ UNCHANGED <<core, lru, main, pool>>

\* lines 1316-1334: HEAD probe h is answered.  The callback builds the
\* FileEntry, the opener stores it and returns 0, then the requests that
\* awaited the same promise go on; a failed HEAD throws in all of them.
HeadAnswered(h, outcome, r) ==
  /\ h \in 1..Len(reg.heads) /\ reg.heads[h].st = "pending"
  /\ outcome = "fail" =>
       /\ Cardinality(Failed(reg.heads)) < MaxHeadFail
       /\ reg.heads[h].owner = Prober
  /\ LET u == reg.heads[h].url
         id == reg.nextId
         fin == [c \in Consumers |->
                   IF reg.req[c].pc \in {"head", "join"} /\ reg.req[c].w = h
                     THEN Returned(reg.req[c],
                            IF outcome = "fail" THEN 1
                            ELSE IF reg.req[c].op = "xRead" THEN r ELSE 0)
                     ELSE reg.req[c]]
     IN reg' =
       IF outcome = "ok"
         THEN [reg EXCEPT !.heads[h].st = "ok", !.nextId = @ + 1,
                          !.made = Append(@, [url |-> u, id |-> id]),
                          !.files = set(@, u, FileEntry(id), 1),
                          !.order = Used(@, u), !.req = fin]
         ELSE [reg EXCEPT !.heads[h].st = "fail", !.req = fin]
  /\ UNCHANGED <<core, lru, main, pool>>

NextRegistry ==
  \/ /\ reg.loaded <= MaxFiles
     /\ \E r \in {0} : Request(Loader, "xOpen", reg.loaded + 1, r)
  \/ /\ reg.probes < MaxProbe
     /\ \E op \in RegOps, u \in ProbeURLs, r \in {0, 1} : Request(Prober, op, u, r)
  \/ \E h \in 1..(MaxFiles + 1 + MaxProbe), outcome \in {"ok", "fail"}, r \in {0, 1} :
       HeadAnswered(h, outcome, r)

SpecRegistry == Init /\ [][NextRegistry]_vars

\* ------------------------------------------------------------ channels
\* bundle.js, createHttpBackend (lines 385-466): the main thread creates
\* channels and closes the backend; the worker answers each handshake with
\* an ack that carries the id (worker lines 1506-1517) unless the handshake
\* throws, and answers 'close' with an ack without id, after which it
\* handles nothing (lines 1525-1528).  Timers and messages are tasks of the
\* event loop and run in any order.

\* what settling a promise does: only the first call has an effect
Settle(m, id, how) ==
  [m EXCEPT !.calls[id] = @ + 1,
            !.promise[id] = IF @ = "pending" THEN how ELSE @]

\* lines 408-426, worker.onmessage as createHttpBackend installs it; an ack
\* for consumers[id] without resolve throws at line 417
onmessage(m, a) ==
  IF a = NoId \/ m.consumers[a] = "none" THEN m
  ELSE IF m.consumers[a] = "acked" THEN m
  ELSE [Settle(m, a, "resolved") EXCEPT !.port[a] = a, !.timer[a] = "cleared",
                                         !.consumers[a] = "acked"]

\* close() that leaves the handler of lines 408-426 in place
onmessageKept(m, a) == onmessage(m, a)
\* lines 456-462, worker.onmessage as close() installs it
onmessageClosing(m, a) ==
  IF a = NoId
    THEN [m EXCEPT !.closing = IF @ = "pending" THEN "resolved" ELSE @,
                   !.closeTimer = IF @ = "armed" THEN "cleared" ELSE @]
    ELSE m

\* lines 385-427
CreateHttpBackend ==
  /\ ~main.made
  /\ main' = [main EXCEPT !.made = TRUE]
  /\ UNCHANGED <<core, lru, reg, pool>>

\* lines 431-444
CreateNewChannel ==
  /\ main.made /\ main.nextId <= MaxChan
  /\ LET id == main.nextId
     IN main' = [main EXCEPT !.nextId = @ + 1,
                             !.toWorker = Append(@, [msg |-> "handshake", id |-> id]),
                             !.promise[id] = "pending",
                             !.timer[id] = "armed",
                             !.consumers[id] = "waiting"]
  /\ UNCHANGED <<core, lru, reg, pool>>

\* lines 438-441: the timer of createNewChannel fires
Timeout(id) ==
  /\ main.made /\ main.timer[id] = "armed"
  /\ main' = [Settle(main, id, "rejected") EXCEPT !.timer[id] = "fired",
                                                !.consumers[id] = "none"]
  /\ UNCHANGED <<core, lru, reg, pool>>

\* lines 448-464
Close ==
  /\ main.made /\ main.closing = "none"
  /\ main' = [main EXCEPT !.toWorker = Append(@, [msg |-> "close", id |-> NoId]),
                          !.closing = "pending", !.closeTimer = "armed",
                          !.handler = "closing"]
  /\ UNCHANGED <<core, lru, reg, pool>>

\* lines 453-455: the timer of close() fires
CloseTimeout ==
  /\ main.made /\ main.closeTimer = "armed"
  /\ main' = [main EXCEPT !.closeTimer = "fired",
                          !.closing = IF @ = "pending" THEN "rejected" ELSE @]
  /\ UNCHANGED <<core, lru, reg, pool>>

\* worker lines 1502-1532: the worker handles its next control message
WorkerHandles(throws) ==
  /\ main.made /\ main.toWorker # <<>>
  /\ LET m == Head(main.toWorker)
         rest == [main EXCEPT !.toWorker = Tail(@)]
     IN main' =
          IF main.workerClosed THEN rest
          ELSE IF m.msg = "close"
            THEN [rest EXCEPT !.toMain = Append(@, NoId), !.workerClosed = TRUE]
          ELSE IF throws THEN rest
          ELSE [rest EXCEPT !.toMain = Append(@, m.id)]
  /\ UNCHANGED <<core, lru, reg, pool>>

\* the main thread handles the next ack with the handler installed
MainHandles ==
  /\ main.made /\ main.toMain # <<>>
  /\ LET a == Head(main.toMain)
         rest == [main EXCEPT
                    !.toMain = Tail(@),
                    !.late = IF a = NoId THEN @
                             ELSE IF main.timer[a] = "fired"
                               THEN [@ EXCEPT ![a] = "timeout"]
                             ELSE IF main.handler = "closing"
                               THEN [@ EXCEPT ![a] = "close"]
                             ELSE @]
     IN main' = IF main.handler = "closing" THEN onmessageClosing(rest, a)
                ELSE onmessage(rest, a)
  /\ UNCHANGED <<core, lru, reg, pool>>

NextChannel ==
  \/ CreateHttpBackend
  \/ CreateNewChannel
  \/ \E id \in ChanIds : Timeout(id)
  \/ Close
  \/ CloseTimeout
  \/ \E throws \in BOOLEAN : WorkerHandles(throws)
  \/ MainHandles

\* a timer that is armed fires, and a message posted is handled
FairChannel ==
  /\ \A id \in ChanIds : WF_vars(Timeout(id))
  /\ WF_vars(CloseTimeout)
  /\ WF_vars(\E throws \in BOOLEAN : WorkerHandles(throws))
  /\ WF_vars(MainHandles)

SpecChannel == Init /\ [][NextChannel]_vars /\ FairChannel

\* ------------------------------------------------------------ worker pool
\* bundle.js, createSQLiteHTTPPool (lines 472-526).  exec runs without
\* interruption from its call to its first await, and from the settling of
\* a promise through every continuation that promise wakes: when
\* workers[w].busy settles, the finally callback (line 516-519) has run, the
\* owner resumes at line 520 and returns, its caller resumes and may call
\* exec again at once, and only then do the calls suspended at line 502
\* resume, after the two further promises (race, catch) they await.

\* line 500: workers.find((w) => !w.busy), 0 when there is none
find(p) ==
  IF \E w \in PoolWorkers : p.busy[w] = 0
    THEN CHOOSE w \in PoolWorkers :
           p.busy[w] = 0 /\ \A v \in PoolWorkers : p.busy[v] = 0 => w <= v
    ELSE 0

\* lines 499-520: one turn of the loop of exec call e, up to its await
turn(p, e) ==
  IF find(p) = 0
    THEN [p EXCEPT !.st[e] = "waiting", !.queue = Append(@, e)]
    ELSE [p EXCEPT !.st[e] = "running", !.at[e] = find(p), !.busy[find(p)] = e]

\* the calls suspended at line 502 resume one after the other
RECURSIVE wake(_, _)
wake(p, q) == IF q = <<>> THEN p ELSE wake(turn(p, Head(q)), Tail(q))

\* lines 472-495
CreatePool ==
  /\ ~pool.made
  /\ pool' = [pool EXCEPT !.made = TRUE]
  /\ UNCHANGED <<core, lru, reg, main>>

\* lines 496-520: a call of pool.exec
Exec ==
  /\ pool.made /\ pool.next <= MaxExec
  /\ pool' = turn([pool EXCEPT !.next = @ + 1], pool.next)
  /\ UNCHANGED <<core, lru, reg, main>>

\* lines 505-522: the exec of worker w settles; `again` is whether the
\* caller, when its call returns or throws, calls exec once more
Settles(w, outcome, again) ==
  /\ pool.made /\ pool.busy[w] # 0
  /\ LET e == pool.busy[w]
         freed == [pool EXCEPT !.busy[w] = 0, !.st[e] = outcome]
         called == IF again /\ pool.next <= MaxExec
                     THEN turn([freed EXCEPT !.next = @ + 1], pool.next)
                     ELSE freed
     IN pool' = wake([called EXCEPT !.queue = <<>>], called.queue)
  /\ UNCHANGED <<core, lru, reg, main>>

NextPool ==
  \/ CreatePool
  \/ Exec
  \/ \E w \in PoolWorkers, outcome \in {"fulfilled", "rejected"}, again \in BOOLEAN :
       Settles(w, outcome, again)

SpecPool == Init /\ [][NextPool]_vars

\* ------------------------------------------------------------ properties
Inflight(id) == fetches[id].st = "inflight"
IsRead(t) == t.msg.op = "xRead"
\* consumer c has been answered and task[c] holds its last request's result
Answered(c) == task[c].pc = "idle" /\ task[c].msg.op # "none"

\* C1: single-flight.  At most one GET per cache key (file id, page) is
\* outstanding at any time.
C1_SingleFlight ==
  \A i, j \in 1..Len(fetches) :
    (i < j /\ Inflight(i) /\ Inflight(j)) => fetches[i].key # fetches[j].key

\* the bytes of the entries of a recency list
EntryBytes(v) == IF v.t = "D" THEN v.b ELSE 4
RECURSIVE TrackedSize(_)
TrackedSize(list) ==
  IF list = <<>> THEN 0 ELSE EntryBytes(list[1].v) + TrackedSize(Tail(list))

\* C2: boundedness.  The bytes the cache holds, counted from its entries (the
\* byte length of each chunk, 4 for each promise or reference), are what the
\* cache tracks as calculatedSize and never exceed cacheSize * 1024.
C2_Bounded ==
  cache.ok =>
    /\ cache.calculatedSize = TrackedSize(cache.list)
    /\ TrackedSize(cache.list) <= options.cacheSize * 1024

C2_Witness ==
  /\ cache.ok /\ cache.evicted
  /\ \E i \in 1..Len(cache.list) : cache.list[i].v.t = "D"
  /\ \E i \in 1..Len(cache.list) : cache.list[i].v.t # "D"

\* C3: reference-after-eviction safety.  An xRead that found a reference at
\* its page and replied 0 copied exactly the file bytes [offset, offset + n).
C3_RefSafe ==
  \A c \in Consumers :
    (Answered(c) /\ IsRead(task[c]) /\ task[c].viaRef /\ task[c].status = 0)
      => task[c].copied = [from |-> task[c].msg.offset, len |-> task[c].msg.n]

\* ---- what the properties below read off a step
\* consumer c's data message is received in this step
Received(c) == sent'[c] = sent[c] + 1
\* consumer c is answered in this step
RepliedNow(c) == stored'[c] = stored[c] + 1
\* consumer c is answered 1 / 0 in this step
FailedNow(c) ==
  /\ RepliedNow(c) /\ notified'[c] = notified[c] + 1
  /\ task'[c].pc = "idle" /\ consumers'[c].lock = 1
ServedNow(c) ==
  /\ RepliedNow(c) /\ notified'[c] = notified[c] + 1
  /\ task'[c].pc = "idle" /\ consumers'[c].lock = 0
\* the handler of consumer c ran in this step
RanNow(c) == task'[c].pc # task[c].pc \/ RepliedNow(c)
\* the page of m under the page size the entry holds, and where it starts
PageOf(m) == m.offset \div files[m.url].pageSize
PageStartOf(m) == PageOf(m) * files[m.url].pageSize
InOnePage(m) ==
  m.n >= 0 /\ m.offset + m.n <= PageStartOf(m) + files[m.url].pageSize
\* an xRead of an open file whose page size was read from its header
ReadOfKnown(m) ==
  m.op = "xRead" /\ files[m.url].st = "entry" /\ disc[m.url].known
\* page p of the file of m is in the cache as data, or as a reference to a
\* root that is in the cache as data
Resident(m, p) ==
  LET v == LruValue(cache, <<files[m.url].id, p>>)
  IN \/ v.t = "D"
     \/ v.t = "N" /\ LruValue(cache, <<files[m.url].id, v.a>>).t = "D"

\* C4: reply liveness.  At every moment each consumer's status cell has been
\* stored and notified once per data message received, less the one whose
\* handler is still running; and every running handler ends, so its consumer
\* is answered, also when the operation fails.
C4_ReplyOnce ==
  /\ [](\A c \in Consumers :
          /\ stored[c] = notified[c]
          /\ stored[c] = sent[c] - (IF task[c].pc = "idle" THEN 0 ELSE 1))
  /\ \A c \in Consumers : (task[c].pc # "idle") ~> (task[c].pc = "idle")

C4_Witness ==
  \E c \in Consumers :
    /\ Answered(c) /\ IsRead(task[c]) /\ task[c].status = 1
    /\ consumers[c].lock = 1 /\ stored[c] = 2 /\ notified[c] = 2
    /\ \E id \in 1..Len(fetches) : fetches[id].st = "fail"

\* C5: hit consistency.  Two xRead requests for the same range of the same
\* file, both answered 0, with no cache entry evicted since the earlier of
\* them was received, delivered the same bytes.
C5_HitConsistent ==
  \A c1, c2 \in Consumers :
    (/\ Answered(c1) /\ Answered(c2)
     /\ task[c1].fresh /\ task[c2].fresh
     /\ task[c1].msg = task[c2].msg)
      => task[c1].copied = task[c2].copied

\* what C6 says of one step
C6_Step ==
  \A c \in Consumers :
    LET m == task'[c].msg
    IN /\ (/\ RepliedNow(c) /\ m.op = "xRead" /\ task'[c].status = 0
           /\ RemotePageSize(m.url) = 1024 /\ m.offset = 0 /\ m.n = 1024)
            => task'[c].copied = [from |-> 0, len |-> 1024]
       /\ (/\ Received(c) /\ ReadOfKnown(m) /\ files[m.url].pageSize = 1024
           /\ InOnePage(m) /\ Resident(m, PageOf(m)))
            => (ServedNow(c) /\ fetches' = fetches)

\* C6: a cache hit costs no network.  In a file of page size 1024, an
\* xRead(0, 1024) answered 0 delivered the bytes 0..1023; and an xRead of a
\* page that is resident when the request is received (as data, or as a
\* reference to a resident root) is answered 0 in the run that receives it,
\* with no GET issued.
C6_HitNoNetwork == [][C6_Step]_vars

\* page 2 was read through the reference left by the two-page fetch of page
\* 1: two fetches in all, the discovery's and that one
C6_Witness ==
  /\ Len(fetches) = 2
  /\ \E c \in Consumers :
       /\ Answered(c) /\ task[c].msg = Read(1, 2048, 1024)
       /\ task[c].viaRef /\ task[c].status = 0
       /\ task[c].copied = [from |-> 2048, len |-> 1024]

\* the script has run to its end with every HEAD and GET answered in full
ScanDone ==
  /\ scenario # "free"
  /\ sent[1] = Len(Script(scenario)) /\ task[1].pc = "idle"
  /\ files[ScriptUrl(scenario)].st = "entry"
  /\ \A id \in 1..Len(fetches) : fetches[id].st = "ok"

Sequential == scenario \in {"seq1", "seq2"}
\* each GET asked for twice the bytes of the one before
Geometric ==
  /\ Len(fetches) >= 2
  /\ \A id \in 2..Len(fetches) : fetches[id].size = 2 * fetches[id - 1].size
\* three GETs of one page each
OnePageEach ==
  /\ Len(fetches) = 3
  /\ \A id \in 1..Len(fetches) :
       fetches[id].size = RemotePageSize(ScriptUrl(scenario))

\* C7 as stated: reading pages 0,1,2,3 issues fetches that double in size,
\* reading pages 0,5,2 issues three fetches of one page each.
C7_AsStated ==
  ScanDone => IF Sequential THEN Geometric ELSE OnePageEach

\* C7, amended: reading pages 0,1,2,3 issues fetches that double in size as
\* long as nothing was evicted from the cache; reading pages 0,5,2 of a file
\* whose page size is 1024 issues three fetches of one page each.
C7_Coalescing ==
  ScanDone =>
    IF Sequential THEN ~cache.everEvicted => Geometric
    ELSE RemotePageSize(ScriptUrl(scenario)) = 1024 => OnePageEach

C7_Witness ==
  /\ scenario = "seq1" /\ ScanDone /\ ~cache.everEvicted
  /\ Len(fetches) = 3
  /\ fetches[1].size = 1024 /\ fetches[2].size = 2048 /\ fetches[3].size = 4096
  /\ task[1].status = 0 /\ task[1].copied = [from |-> 3072, len |-> 1024]

\* what C8 says of one step
C8_Step ==
  \A c \in Consumers :
    LET m == task'[c].msg
    IN (Received(c) /\ ReadOfKnown(m) /\ m.n >= 0) =>
         IF InOnePage(m)
           THEN cache.ok => ~FailedNow(c)
           ELSE /\ FailedNow(c)
                /\ fetches' = fetches
                /\ cache'.list = cache.list
                /\ cache'.calculatedSize = cache.calculatedSize

\* C8: cross-page reads are rejected.  Once the page size of a file was read
\* from its header, an xRead that ends past the end of the page it starts in
\* is answered 1 in the run that receives it, with no GET issued and the
\* cache left as it was; an xRead that stays in one page, aligned or not, is
\* not failed by that run when the cache exists.
C8_CrossPageRejected == [][C8_Step]_vars

C8_Witness ==
  /\ disc[1].known
  /\ \E c \in Consumers :
       /\ Answered(c) /\ task[c].msg = Read(1, 100, 1024) /\ task[c].status = 1
  /\ \E c \in Consumers :
       /\ Answered(c) /\ task[c].msg = Read(1, 100, 100) /\ task[c].status = 0
       /\ task[c].copied = [from |-> 100, len |-> 100]

\* what C9 says of one step
C9_Step ==
  \A u \in URLs :
    /\ disc'[u].count <= 1
    /\ disc[u].known => (disc'[u].known /\ files'[u].pageSize = files[u].pageSize)
    /\ \A c \in Consumers :
         (RepliedNow(c) /\ task'[c].msg.op = "xRead" /\ task'[c].msg.url = u
          /\ task'[c].status = 0)
           => disc'[u].count = 1

KnownOps == {"xOpen", "xAccess", "xRead", "xFilesize"}

\* the handler of m throws before its first yield
ThrowsAtOnce(m) ==
  \/ m.op \notin KnownOps
  \/ m.op \in {"xRead", "xFilesize"} /\ files[m.url].st \in {"none", "rejected"}
  \/ m.op = "xOpen" /\ files[m.url].st = "rejected"
  \/ /\ m.op = "xRead" /\ files[m.url].st = "entry"
     /\ \/ m.n < 0
        \/ ~cache.ok
        \/ disc[m.url].known /\ ~InOnePage(m)

\* what C10 says of one step
C10_Step ==
  \A c \in Consumers :
    LET m == task'[c].msg
    IN /\ RepliedNow(c) =>
            (consumers'[c].lock \in {0, 1} /\ notified'[c] = notified[c] + 1)
       /\ (Received(c) /\ ThrowsAtOnce(m)) => FailedNow(c)
       /\ (/\ task[c].pc = "awaitResp" /\ RanNow(c)
           /\ fetches'[task[c].w.a].st = "fail") => FailedNow(c)
       /\ (/\ task[c].pc \in {"awaitData", "awaitRoot", "awaitPrev1", "awaitPrev2"}
           /\ RanNow(c) /\ fetches[task[c].w.a].st = "fail") => FailedNow(c)
       /\ (/\ task[c].pc = "discRet" /\ RanNow(c)
           /\ task[c].hdr > options.maxPageSize) => FailedNow(c)
       /\ (/\ task[c].pc \in {"awaitHead", "awaitEntry"} /\ RanNow(c)
           /\ files'[task[c].msg.url].st = "rejected")
            => IF m.op = "xAccess" THEN ServedNow(c) ELSE FailedNow(c)

\* C10: error conversion.  Every store into a status cell that answers a
\* request stores 0 or 1, and a request whose handler throws is answered 1:
\* an unknown operation, a file that is not open, missing arguments, no
\* cache, a read across a page boundary, a page size over maxPageSize, a GET
\* or a HEAD that failed (xAccess catches what it throws and answers 0).
C10_ErrorConversion == [][C10_Step]_vars

\* a discovery that found a page size over maxPageSize was answered 1
C10_Witness ==
  \E c \in Consumers :
    /\ Answered(c) /\ IsRead(task[c]) /\ task[c].msg.url = 2
    /\ disc[2].known /\ files[2].pageSize > options.maxPageSize
    /\ task[c].status = 1 /\ consumers[c].lock = 1

\* consumer c's request is an xOpen of u
Opens(c, u) == task'[c].msg.op = "xOpen" /\ task'[c].msg.url = u
\* the run of this step issued no HEAD and no GET
NoNetwork ==
  /\ fetches' = fetches
  /\ \A u \in URLs : disc'[u].heads = disc[u].heads

\* what C11 says of one step
C11_Step ==
  \A u \in URLs :
    /\ disc'[u].heads <= 1
    /\ files[u].st = "entry" => files'[u] = [files[u] EXCEPT !.pageSize = files'[u].pageSize]
    /\ \A c \in Consumers :
         /\ (Received(c) /\ Opens(c, u) /\ files[u].st = "pending")
              => (task'[c].pc = "awaitEntry" /\ NoNetwork)
         /\ (Received(c) /\ Opens(c, u) /\ files[u].st = "entry")
              => (ServedNow(c) /\ NoNetwork)
         /\ (RepliedNow(c) /\ Opens(c, u) /\ disc'[u].head = "ok")
              => (ServedNow(c) /\ files'[u].st = "entry")

C12_OpenFails ==
  \A u \in URLs :
    disc[u].head \in {"status", "fail"} =>
      /\ files[u].st # "entry"
      /\ \A c \in Consumers :
           (Answered(c) /\ task[c].msg = Open(u)) => task[c].status = 1

\* C13: a failed fetch leaves no trace.  No entry of the cache holds the
\* promise of a GET that failed, or a reference that waits for one.
C13_NoTrace ==
  \A i \in 1..Len(cache.list) :
    IsPromise(cache.list[i].v) => fetches[cache.list[i].v.a].st # "fail"

\* what C14 says of one step
C14_Step ==
  \A u \in URLs, c \in Consumers :
    (Received(c) /\ Opens(c, u) /\ files[u].st = "rejected")
      => (disc'[u].heads = disc[u].heads + 1 /\ task'[c].pc = "awaitHead")

\* C14: open is recoverable by retry.  An xOpen of a URL whose earlier probe
\* failed issues a new probe and waits for it.
C14_OpenRetry == [][C14_Step]_vars

\* what C15 says of one step
C15_Step ==
  \A c \in Consumers :
    LET m == task'[c].msg
    IN /\ (/\ Received(c) /\ m.op \in {"xRead", "xFilesize"}
           /\ files[m.url].st = "none")
            => /\ FailedNow(c) /\ NoNetwork
               /\ files' = files
               /\ cache'.list = cache.list
               /\ cache'.calculatedSize = cache.calculatedSize
       /\ (Received(c) /\ m.op = "xFilesize" /\ files[m.url].st = "entry")
            => /\ ServedNow(c) /\ NoNetwork
               /\ consumers'[c].buf.k = "i64"
               /\ consumers'[c].buf.a = files[m.url].size

\* C15: open before use.  An xRead or an xFilesize of a URL that was never
\* opened is answered 1 in the run that receives it, with no HEAD and no GET
\* issued and the registry and the cache left as they were; an xFilesize of
\* an open URL is answered 0 with the size the entry holds written into the
\* consumer's region, and no HEAD and no GET issued.
C15_OpenBeforeUse == [][C15_Step]_vars

C15_Witness ==
  \E c1, c2 \in Consumers :
    /\ Answered(c1) /\ task[c1].msg = Other("xFilesize", 1)
    /\ consumers[c1].lock = 0 /\ consumers[c1].buf.k = "i64"
    /\ consumers[c1].buf.a = RemoteSize(1)
    /\ Answered(c2) /\ task[c2].msg = Read(1, 0, 1024)
    /\ consumers[c2].lock = 1 /\ sent[c2] = 1 /\ Len(fetches) = 0

\* the page size read from the header of u is over maxPageSize
Oversize(u) == disc[u].known /\ files[u].pageSize > options.maxPageSize

\* what C16 says of one step: the read that finds the page size over the
\* maximum is answered 1, and so is a read that was received after that, be
\* it answered by the run that receives it or by a later one (its frame then
\* holds the page size it took from the entry)
C16_Step ==
  \A c \in Consumers :
    LET m == task'[c].msg
    IN /\ (/\ task[c].pc = "discRet" /\ RanNow(c)
           /\ task[c].hdr > options.maxPageSize) => FailedNow(c)
       /\ (/\ RepliedNow(c) /\ m.op = "xRead" /\ Oversize(m.url)
           /\ (Received(c) \/ task[c].ps > options.maxPageSize))
            => consumers'[c].lock = 1

\* C16: an oversize page size is fatal for the file.  Once the page size read
\* from the header of a file is over maxPageSize, the xRead that read it and
\* every xRead of the file received afterwards are answered 1.
C16_OversizeFatal == [][C16_Step]_vars

\* C17: the result of xAccess.  A consumer answered for an xAccess finds 1 in
\* its status cell when the registry holds a FileEntry for the URL (an xOpen
\* of it succeeds) and 0 when it does not.
C17_AccessResult ==
  \A c \in Consumers :
    (Answered(c) /\ task[c].msg.op = "xAccess") =>
      consumers[c].lock = IF files[task[c].msg.url].st = "entry" THEN 1 ELSE 0

\* consumer c's region is allocated in this step
Allocated(c) == ~consumers[c].hs /\ consumers'[c].hs
\* consumer c is blocked on its status cell while the step runs: its request
\* is received in the step or was before, and is not answered yet
Waiting(c) == Received(c) \/ task[c].pc # "idle"

\* what C18 says of one step
C18_Step ==
  \A c \in Consumers :
    /\ consumers'[c].acks = IF consumers'[c].hs THEN 1 ELSE 0
    /\ Allocated(c) =>
         /\ consumers'[c].lock = HANDSHAKE /\ consumers'[c].buf = ZeroBuf
         /\ consumers'[c].len = options.maxPageSize
         /\ consumers'[c].acks = consumers[c].acks + 1
         /\ \A c2 \in Consumers \ {c} :
              /\ consumers'[c2] = consumers[c2]
              /\ consumers[c2].hs => consumers[c2].shm # consumers'[c].shm
    /\ consumers[c].hs => consumers'[c].shm = consumers[c].shm
    /\ RepliedNow(c) =>
         \A c2 \in Consumers \ {c} : consumers'[c2] = consumers[c2]

\* C18: per-consumer region.  A handshake allocates a region no other
\* consumer has, with the status cell holding HANDSHAKE and a zeroed data
\* buffer of maxPageSize bytes, and posts one ack for that consumer; a reply
\* to a consumer leaves the status cell and the data buffer of every other
\* consumer as they were, however the requests interleave.
C18_OwnRegion == [][C18_Step]_vars

\* both consumers were answered, one with bytes and 0, the other with 1
C18_Witness ==
  /\ Answered(1) /\ Answered(2)
  /\ consumers[1].shm # consumers[2].shm
  /\ consumers[1].lock = 0 /\ consumers[1].buf.k = "bytes"
  /\ consumers[2].lock = 1 /\ consumers[2].buf = ZeroBuf

\* in a log, every a comes before every b
Precedes(log, a, b) ==
  \A i, j \in 1..Len(log) : (log[i] = a /\ log[j] = b) => i < j
Count(log, a) == Cardinality({i \in 1..Len(log) : log[i] = a})

\* what C19 says of one step
C19_Step ==
  \A c \in Consumers :
    /\ consumers'[c] # consumers[c] => (Allocated(c) \/ RepliedNow(c))
    /\ RepliedNow(c) =>
         /\ Waiting(c) /\ task'[c].pc = "idle"
         /\ notified'[c] = notified[c] + 1
         /\ LET log == consumers'[c].log
            IN /\ Count(log, "store") = 1 /\ Count(log, "notify") = 1
               /\ Precedes(log, "buffer", "store")
               /\ Precedes(log, "store", "notify")
               /\ log[Len(log)] = "notify"

Issued == Len(fetches') = Len(fetches) + 1
NewFetch == fetches'[Len(fetches')]
\* consumer c's handler issued it
Issuer(c) == task'[c].pc = "awaitResp" /\ task'[c].w.a = Len(fetches')
\* the page it is for, and one page of its file in bytes
MissPage == NewFetch.key[2]
OnePage == files'[NewFetch.url].pageSize
\* the cache as the run of consumer c reads it: a discovery that found a
\* page size other than 1024 has dropped page 0 first
Seen(c) ==
  IF task[c].pc = "discRet" /\ task[c].hdr # ProvisionalPageSize
    THEN LruDelete(cache, <<NewFetch.key[1], 0>>) ELSE cache
\* what the cache holds for page q of the file
Held(c, q) == LruValue(Seen(c), <<NewFetch.key[1], q>>)
\* what the handler of c has for page p-1: what the cache holds, or what
\* the fetch handed over that the handler awaited for page p-1
PrevOf(c) ==
  IF task[c].pc \in {"awaitPrev1", "awaitPrev2"} THEN Awaited(Now, task[c].w)
  ELSE IF MissPage > 0 /\ Truthy(Held(c, MissPage - 1)) THEN Held(c, MissPage - 1)
  ELSE Undef
\* the chunk that contains page p-1: page p-1 itself, or the root it refers to
ChunkOfPrev(c) == IF PrevOf(c).t = "N" THEN Held(c, PrevOf(c).a) ELSE PrevOf(c)

\* C20 as stated: on every miss for page p the chunk fetched is twice the
\* bytes of page p-1's chunk when the cache holds page p-1 as a root, and one
\* page in every other case.
C20_AsStated ==
  [][\A c \in Consumers :
       (Issued /\ Issuer(c)) =>
         NewFetch.size = IF PrevOf(c).t = "D" THEN 2 * PrevOf(c).b ELSE OnePage]_vars

\* C20, amended: on every miss for page p the chunk fetched is twice the
\* bytes of the chunk that contains page p-1, when the handler finds that
\* chunk: page p-1 is in the cache as a root or as a reference to a root that
\* is in the cache, or the fetch of it was awaited and succeeded; it is one
\* page in every other case.
C20_ChunkSize ==
  [][\A c \in Consumers :
       (Issued /\ Issuer(c)) =>
         NewFetch.size = IF ChunkOfPrev(c).t = "D" THEN 2 * ChunkOfPrev(c).b
                         ELSE OnePage]_vars

\* page 3 was missed with page 2 a reference to the two-page chunk of page 1
C20_Witness ==
  \E id \in 1..Len(fetches) :
    /\ fetches[id].key = <<1, 3>> /\ fetches[id].size = 4096
    /\ LruValue(cache, <<1, 2>>) = Num(1)
    /\ LruValue(cache, <<1, 1>>) = Data(1024, 2048)

\* C21: no shrinking.  While consumer 1 reads the pages 0,1,2,3 of a file one
\* after the other, starting with an empty cache, no GET asks for fewer bytes
\* than the GET issued before it, whatever the size of the cache.
C21_NoShrinking ==
  Sequential =>
    \A id \in 2..Len(fetches) : fetches[id].size >= fetches[id - 1].size

\* ---- what a step in which GET id settles shows of it
\* GET id succeeds in this step with a body that is not empty
SucceedsNow(id) ==
  Inflight(id) /\ fetches'[id].st = "ok" /\ fetches'[id].len > 0
\* consumer c's handler issued GET id and awaits it
Owner(c, id) == task[c].pc = "awaitResp" /\ task[c].w.a = id
\* the chunk GET id brought
ChunkOf(id) == Data(fetches'[id].from, fetches'[id].len)

\* C22: postcondition of a successful fetch.  When the GET of the chunk of
\* pages p..last settled with its body, the handler that issued it has run,
\* and the cache holds the chunk at page p and a reference to p at each of
\* the pages p+1..last, whatever the size of the chunk and of the cache.
C22_FetchPostcondition ==
  [][\A c \in Consumers, id \in 1..Len(fetches) :
       (Owner(c, id) /\ SucceedsNow(id)) =>
         LET fid == fetches[id].key[1]
             p == fetches[id].key[2]
         IN /\ LruValue(cache', <<fid, p>>) = ChunkOf(id)
            /\ \A q \in (p + 1)..task[c].last :
                 LruValue(cache', <<fid, q>>) = Num(p)]_vars

\* C23: eviction of a pending entry cancels it.  When a GET settles with its
\* body after the promise stored for it was evicted from the cache (no entry
\* is left under its key), its chunk is not stored in the cache.
C23_EvictionCancels ==
  [][\A id \in 1..Len(fetches) :
       (SucceedsNow(id) /\ LruValue(cache, fetches[id].key) = Undef) =>
         LruValue(cache', fetches[id].key) # ChunkOf(id)]_vars

\* ---- the recency list, from its head (the entry whose last get or set is
\* the oldest) to its tail
\* the keys and values stored on trial in every reachable cache
ProbeKeys == {<<1, p>> : p \in 0..2}
ProbeValues == {Data(0, 1024), Data(1024, 2048), Num(0), Resp(1)}
\* the list without the entry of key k
Without(list, k) ==
  IF KeyIndex(list, k) = 0 THEN list ELSE RemoveAt(list, KeyIndex(list, k))
\* the entries from the n+1st on
From(list, n) == SubSeq(list, n + 1, Len(list))
\* how few entries must go from the head for the others to fit in `room` bytes
Dropped(list, room) ==
  CHOOSE n \in 0..Len(list) :
    /\ TrackedSize(From(list, n)) <= room
    /\ \A m \in 0..(n - 1) : TrackedSize(From(list, m)) > room

\* what C24 says of the cache c
LruOrder(c) ==
  c.ok =>
    \A k \in ProbeKeys :
      LET rest == Without(c.list, k)
          i == KeyIndex(c.list, k)
      IN /\ i # 0 => LruTouch(c, k).list = rest \o <<c.list[i]>>
         /\ \A v \in ProbeValues :
              LET size == EntryBytes(v)
                  after == LruSet(c, k, v).list
              IN IF size > c.maxSize THEN after = rest
                 ELSE after = From(rest, Dropped(rest, c.maxSize - size))
                                \o <<[k |-> k, v |-> v, sz |-> size]>>

BlockedOn(c, id) ==
  /\ task[c].pc \in {"awaitResp", "awaitData", "awaitRoot", "awaitPrev1", "awaitPrev2"}
  /\ task[c].w.a = id /\ Inflight(id)
\* the bytes GET id asks for contain the first byte consumer c asked for
Covers(id, c) ==
  /\ fetches[id].url = task[c].msg.url
  /\ fetches[id].from <= CurOffset(task[c])
  /\ CurOffset(task[c]) < fetches[id].from + fetches[id].size

\* C25: isolation of a stuck fetch.  A handler waits for a GET to settle only
\* when the page it was asked for is among the pages of that GET; so a GET
\* that never settles keeps back only the requests for its own pages.
C25_Isolation ==
  \A c \in Consumers, id \in 1..Len(fetches) :
    BlockedOn(c, id) => Covers(id, c)

\* consumer c's handler resumes in this step from the promise of GET id, which
\* it found in the cache (at its page, or at the root its page refers to) and
\* joined
JoinerResumes(c, id) ==
  /\ task[c].pc \in {"awaitData", "awaitRoot"} /\ task[c].w.a = id
  /\ ~Inflight(id) /\ RanNow(c)

\* C26: join semantics.  A handler that joined the pending GET of its page
\* ends as that GET ended: when the GET succeeded it replies 0 with bytes of
\* the chunk that GET brought and issues no GET of its own, and when the GET
\* failed it replies 1.
C26_JoinOutcome ==
  [][\A c \in Consumers, id \in 1..Len(fetches) :
       JoinerResumes(c, id) =>
         IF fetches[id].st = "fail" THEN FailedNow(c)
         ELSE /\ ServedNow(c) /\ fetches' = fetches
              /\ task'[c].copied.from >= fetches[id].from
              /\ task'[c].copied.from + task'[c].copied.len
                   <= fetches[id].from + fetches[id].len]_vars

\* C27: the dispatcher survives every request error.  When a request is
\* answered 1, the registry holds no rejected probe and the cache no promise
\* of a failed GET for later requests to run into; and when it is answered 1
\* by the run that received it (as a message naming an unknown operation is),
\* the registry and the cache are as they were before the message.
C27_Survives ==
  [][\A c \in Consumers :
       FailedNow(c) =>
         /\ \A u \in URLs : files'[u].st # "rejected"
         /\ \A i \in 1..Len(cache'.list) :
              IsPromise(cache'.list[i].v) => fetches'[cache'.list[i].v.a].st # "fail"
         /\ Received(c) => (files' = files /\ cache'.list = cache.list)]_vars

\* C28: failure independence between pages.  A handler that, on a miss for
\* page p, awaited the GET of page p-1 (or of the root page p-1 refers to) to
\* size its chunk is not answered 1 because that GET failed.
C28_PrevFailure ==
  [][\A c \in Consumers :
       (/\ task[c].pc \in {"awaitPrev1", "awaitPrev2"}
        /\ fetches[task[c].w.a].st = "fail" /\ RanNow(c))
         => ~FailedNow(c)]_vars

\* C29: the provisional page size is never visible to other readers.  Every
\* xRead but the discovery read has computed its page index and page start
\* with the page size written in the header of its file.
C29_ProvisionalHidden ==
  \A c \in Consumers :
    (/\ task[c].pc # "idle" /\ IsRead(task[c])
     /\ ~task[c].inner /\ task[c].ps # 0)
      => /\ task[c].ps = RemotePageSize(task[c].msg.url)
         /\ task[c].page = task[c].msg.offset \div RemotePageSize(task[c].msg.url)

\* the file whose FileEntry has id fid
UrlOf(fid) == CHOOSE u \in URLs : files[u].st = "entry" /\ files[u].id = fid

\* C30: reference coverage.  Whenever the cache holds at page q a reference
\* to root r and at page r a chunk, r is before q and the chunk reaches the
\* end of page q or the end of the file.
C30_RefCoverage ==
  \A i \in 1..Len(cache.list) :
    LET e == cache.list[i]
        fid == e.k[1]
        q == e.k[2]
        root == LruValue(cache, <<fid, e.v.a>>)
        ps == files[UrlOf(fid)].pageSize
    IN (e.v.t = "N" /\ root.t = "D")
         => /\ e.v.a < q
            /\ \/ root.b >= (q - e.v.a + 1) * ps
               \/ root.a + root.b = RemoteSize(UrlOf(fid))

\* C31: success means a full payload.  An xRead that was answered 0 copied n
\* bytes into its consumer's buffer, also when the GET of its page had
\* brought an empty body.
C31_FullPayload ==
  \A c \in Consumers :
    (Answered(c) /\ IsRead(task[c]) /\ task[c].status = 0)
      => task[c].copied.len = task[c].msg.n

\* a discovery read of file u is under way
Discovering(u) ==
  \E c \in Consumers :
    task[c].pc # "idle" /\ task[c].inner /\ task[c].msg.url = u

\* C32: a failed discovery is not remembered.  Unless a discovery read of the
\* file is under way, the entry of a file whose page size was not read from
\* its header holds no page size, so that the next xRead repeats the discovery.
C32_DiscoveryForgotten ==
  \A u \in URLs :
    (files[u].st = "entry" /\ ~disc[u].known /\ ~Discovering(u))
      => files[u].pageSize = 0

\* the keys keyMap holds, and the keys met from head to tail
present(L) == {k \in Keys : L.keyMap[k] # Absent}
listKeys(L) ==
  LET idx == rindexes(L) IN [i \in 1..Len(idx) |-> L.keyList[idx[i]]]
RECURSIVE SumSizes(_, _)
SumSizes(L, idx) ==
  IF idx = <<>> THEN 0 ELSE L.sizes[Head(idx)] + SumSizes(L, Tail(idx))
WellFormed(L) ==
  LET keys == listKeys(L)
  IN /\ {keys[i] : i \in 1..Len(keys)} = present(L)
     /\ Len(keys) = Cardinality(present(L))
     /\ L.size = Cardinality(present(L))
     /\ L.calculatedSize = SumSizes(L, rindexes(L))

LastOf(seq, n) == SubSeq(seq, Len(seq) - n + 1, Len(seq))

\* C33: the registry never holds more than 32 entries; the entries it holds
\* are the most recently used URLs, so that the 33rd distinct URL removes the
\* least recently used one; xRead and xFilesize for a URL the registry does
\* not hold reply status 1; and a URL opened again gets an id it did not have.
C33_RegistryBounded ==
  /\ Cardinality(present(reg.files)) <= MaxFiles
  /\ reg.files.size <= Len(reg.order)
  /\ listKeys(reg.files) = LastOf(reg.order, reg.files.size)
  /\ \A c \in Consumers :
       (reg.req[c].pc = "idle" /\ reg.req[c].op \in {"xRead", "xFilesize"}
          /\ reg.req[c].absent) => reg.req[c].status = 1
  /\ \A i, j \in 1..Len(reg.made) :
       (i < j /\ reg.made[i].url = reg.made[j].url) => reg.made[i].id # reg.made[j].id

\* the registry is full, URL 1 was dropped from it and refused, and has been
\* opened again since
C33_Witness ==
  /\ reg.files.size = MaxFiles /\ 1 \in reg.refused
  /\ \E i, j \in 1..Len(reg.made) : i < j /\ reg.made[i].url = 1 /\ reg.made[j].url = 1

\* line 1396: cacheId = entry.id + '|' + page, a string; id and page are
\* written in decimal
DigitChar == <<"0", "1", "2", "3", "4", "5", "6", "7", "8", "9">>
RECURSIVE Decimal(_)
Decimal(n) ==
  IF n < 10 THEN <<DigitChar[n + 1]>>
  ELSE Decimal(n \div 10) \o <<DigitChar[(n % 10) + 1]>>
\* the concatenation without the '|'
cacheIdNoBar(id, page) == Decimal(id) \o Decimal(page)
cacheId(id, page) == Decimal(id) \o <<"|">> \o Decimal(page)
\* the pages and the ids compared: pages of one and of two digits, and an
\* id for every HEAD probe that can be sent
MaxKeyPage == 23
KeyPages == 0..MaxKeyPage
KeyIds == 1..(MaxFiles + 1 + MaxProbe)
\* every page-cache key with the id it belongs to, and the pairs of
\* different ids that share a key (with <<0, 0>> for the pairs that do not)
KeysOfIds == {<<cacheId(id, p), id>> : id \in KeyIds, p \in KeyPages}
SharedKey ==
  {IF x[1] = y[1] /\ x[2] # y[2] THEN <<x[2], y[2]>> ELSE <<0, 0>> :
     x \in KeysOfIds, y \in KeysOfIds}

\* C37: two FileEntries, made for different URLs or for the same URL before
\* and after it was dropped from the registry, never have the same id, and
\* no page-cache key id|page of one is a page-cache key of the other.
C37_UniqueIds ==
  \A i, j \in 1..Len(reg.made) :
    i < j => /\ reg.made[i].id # reg.made[j].id
             /\ reg.made[i].id \in KeyIds /\ reg.made[j].id \in KeyIds
             /\ <<reg.made[i].id, reg.made[j].id>> \notin SharedKey

\* 33 URLs have got a FileEntry and one of them, dropped, a second one
C37_Witness ==
  /\ Cardinality({reg.made[i].url : i \in 1..Len(reg.made)}) > MaxFiles
  /\ \E i, j \in 1..Len(reg.made) : i < j /\ reg.made[i].url = reg.made[j].url

\* the main thread handles the ack of channel id in this step
AckHandled(id) ==
  /\ main.toMain # <<>> /\ Head(main.toMain) = id
  /\ main'.toMain = Tail(main.toMain)
Settled(id) == main.promise[id] \in {"resolved", "rejected"}

\* C34: every promise createNewChannel returned is eventually settled, and
\* settled once: resolved, with the port of its own channel, by the ack of its
\* own id handled before its timeout and before close(), rejected by its
\* timer otherwise; an ack handled after the timeout or after close()
\* changes no promise, and the ack of one id changes no promise of another.
C34_SettlesOnce ==
  /\ \A id \in ChanIds : (main.promise[id] = "pending") ~> Settled(id)
  /\ [](\A id \in ChanIds :
          /\ main.calls[id] <= 1
          /\ Settled(id) <=> main.calls[id] = 1
          /\ main.promise[id] = "resolved" =>
               main.port[id] = id /\ main.timer[id] = "cleared" /\ main.late[id] = "no"
          /\ main.promise[id] = "rejected" => main.timer[id] = "fired")
  /\ [][\A id \in ChanIds :
          /\ Settled(id) => main'.promise[id] = main.promise[id]
          /\ (AckHandled(id) /\ main.timer[id] = "armed" /\ main.handler = "normal")
               => main'.promise[id] = "resolved"
          /\ (AckHandled(id) /\ (main.timer[id] = "fired" \/ main.handler = "closing"))
               => main'.promise = main.promise
          /\ AckHandled(id) =>
               \A other \in ChanIds \ {id} : main'.promise[other] = main.promise[other]
       ]_vars

\* one channel resolved by its ack, one rejected by its timer with the ack
\* handled afterwards, one rejected because its ack came after close()
C34_Witness ==
  /\ \E id \in ChanIds : main.promise[id] = "resolved"
  /\ \E id \in ChanIds : main.promise[id] = "rejected" /\ main.late[id] = "timeout"
  /\ \E id \in ChanIds : main.promise[id] = "rejected" /\ main.late[id] = "close"

\* no worker runs two exec calls, and busy names the call a worker runs
ExclusiveWorkers ==
  /\ \A e, f \in Execs :
       (e # f /\ pool.st[e] = "running" /\ pool.st[f] = "running")
         => pool.at[e] # pool.at[f]
  /\ \A e \in Execs : pool.st[e] = "running" =>
       pool.at[e] \in PoolWorkers /\ pool.busy[pool.at[e]] = e
\* the exec of worker w settles in this step
SettlesNow(w) ==
  /\ pool.busy[w] # 0
  /\ pool'.st[pool.busy[w]] \in {"fulfilled", "rejected"}
\* after its exec has settled, fulfilled or rejected, worker w is free or
\* runs another call
FreedOnSettle ==
  \A w \in PoolWorkers : SettlesNow(w) => pool'.busy[w] # pool.busy[w]
\* when an exec settles while calls are waiting, one of them is dispatched
WaiterDispatched ==
  \A w \in PoolWorkers :
    (SettlesNow(w) /\ pool.queue # <<>>) =>
      \E i \in 1..Len(pool.queue) : pool'.st[pool.queue[i]] = "running"

\* C35: each worker has at most one exec outstanding at any time; a worker is
\* available again as soon as its exec settles, fulfilled or rejected; and a
\* waiting exec call is then dispatched.
C35_PoolExclusion ==
  /\ []ExclusiveWorkers
  /\ [][FreedOnSettle /\ WaiterDispatched]_vars

=============================================================================
